---- MODULE Spec2Model ----
(***************************************************************************)
(* Model of react-native-ama:                                              *)
(*   - the rule catalog and its reporter                                   *)
(*       packages/core/src/internals/getRuleErrorInfo.tsx                  *)
(*   - the AccessibilityInfo polyfill for web hosts                        *)
(*       playground/.storybook/accessibility-info-polyfill.js              *)
(*                                                                         *)
(* JavaScript values are encoded as tagged records so that values of       *)
(* different JavaScript types can be compared:                             *)
(*   undefined, null, Str(s), Bool(b), Obj(props)                          *)
(* A computation that may throw yields [ok |-> BOOLEAN, v |-> value].      *)
(***************************************************************************)
EXTENDS Naturals, Sequences, FiniteSets, TLC

VARIABLES
    DEV,          \* the __DEV__ build flag the module was loaded under
    RulesHelp,    \* module constant RULES_HELP (an object, or null)
    Severities,   \* module constant SEVERITIES (an object, or null)
    exported,     \* the module's exports getRuleErrorInfo / GetRuleError
    last,         \* the most recent operation on the rule engine, with its outcome
    probe,        \* an issue singled out to observe repeated evaluations
    probeFirst,   \* outcome of the first getRuleErrorInfo(probe), or NotYet
    probeStage,   \* how far the repeated evaluation of probe has come
    windowDefined,   \* typeof window !== 'undefined'
    hasMatchMedia,   \* window.matchMedia is a function
    activeElement,   \* document.activeElement: "body" | "other" | "throws"
    media,           \* what window.matchMedia(q) does for each query q:
                     \* "matches" | "nomatch" | "throws"
    lastCall,        \* the polyfill call made by the last step, with its outcome
    prefersReducedMotionMedia,
                     \* module constant: the media query list captured at load
                     \* (its matches is live), or null
    handlers,        \* module constant handlers: key -> stored listener
    registered,      \* the 'change' listeners registered on the media query list
    nextListener,    \* identity of the next listener closure to be created
    addCount,        \* per handler: reduceMotionChanged listeners created for it
    removeCount,     \* per handler: removals that answered one of those additions
    subscriptions,   \* subscription objects returned so far
    delivered,       \* the handler invocations made by the last step
    speech,          \* window.speechSynthesis: "absent" | "ok" | "cancelThrows"
                     \* | "utteranceThrows" | "speakThrows"
    speechLog,       \* per announcement made with speechSynthesis present:
                     \* the speechSynthesis methods it called, in order
    hasDocument,     \* window.document exists
    dom,             \* document: "ok" | "createThrows" | "appendThrows"
    liveRegions,     \* per live-region id: how many such elements the document
                     \* holds, their attributes and text, and the message of
                     \* the latest announcement that obtained the region
    timers,          \* pending setTimeout callbacks, in scheduling order
    modules,         \* what require gives for react-native and react-native-web
    patching         \* the patching block of the module: "pending" | "done"

ruleVars == <<DEV, RulesHelp, Severities, exported, last, probe, probeFirst, probeStage>>
hostVars == <<windowDefined, hasMatchMedia, activeElement, media>>
listenerVars == <<handlers, registered, nextListener, addCount, removeCount,
                  subscriptions>>
patchVars == <<modules, patching>>
announceVars == <<speech, speechLog, hasDocument, dom, liveRegions, timers>>
polyVars == <<windowDefined, hasMatchMedia, activeElement, media, lastCall,
              prefersReducedMotionMedia, handlers, registered, nextListener,
              addCount, removeCount, subscriptions, delivered,
              speech, speechLog, hasDocument, dom, liveRegions, timers,
              modules, patching>>
vars == <<DEV, RulesHelp, Severities, exported, last, probe, probeFirst, probeStage,
          windowDefined, hasMatchMedia, activeElement, media, lastCall,
          prefersReducedMotionMedia, handlers, registered, nextListener,
          addCount, removeCount, subscriptions, delivered,
          speech, speechLog, hasDocument, dom, liveRegions, timers,
          modules, patching>>

(***************************************************************************)
(* JavaScript values                                                       *)
(***************************************************************************)
undefined == [t |-> "undefined"]
null == [t |-> "null"]
Str(s) == [t |-> "string", v |-> s]
Bool(b) == [t |-> "boolean", v |-> b]
Obj(props) == [t |-> "object", props |-> props]
\* a value found on the prototype chain (Object.prototype.toString, ...)
Inherited(name) == [t |-> "inherited", name |-> name]

Ok(v) == [ok |-> TRUE, v |-> v]
Throw(e) == [ok |-> FALSE, v |-> Str(e)]

\* String(v), as applied by + with a string operand and by template literals
ToStr(v) ==
    CASE v.t = "string" -> v.v
      [] v.t = "undefined" -> "undefined"
      [] v.t = "null" -> "null"
      [] v.t = "boolean" -> (IF v.v THEN "true" ELSE "false")
      [] OTHER -> "[object Object]"

\* ToBoolean(v), as applied by if (...), !, && and ||
Truthy(v) ==
    CASE v.t = "string" -> v.v # ""
      [] v.t = "undefined" -> FALSE
      [] v.t = "null" -> FALSE
      [] v.t = "boolean" -> v.v
      [] OTHER -> TRUE

\* Property names every object literal inherits from Object.prototype
ObjectPrototypeKeys ==
    {"constructor", "toString", "toLocaleString", "valueOf", "hasOwnProperty",
     "isPrototypeOf", "propertyIsEnumerable", "__proto__",
     "__defineGetter__", "__defineSetter__", "__lookupGetter__",
     "__lookupSetter__"}

\* obj[key]: own property, else inherited property, else undefined;
\* throws a TypeError when obj is undefined or null.
GetProp(obj, key) ==
    IF obj.t \in {"undefined", "null"}
    THEN Throw("TypeError")
    ELSE IF obj.t = "object" /\ key \in DOMAIN obj.props
    THEN Ok(obj.props[key])
    ELSE IF key \in ObjectPrototypeKeys
    THEN Ok(Inherited(key))
    ELSE Ok(undefined)

(***************************************************************************)
(* getRuleErrorInfo.tsx: the rule catalog                                  *)
(***************************************************************************)
\* one catalog entry: {url, issue, severity, message, expectation}
RuleHelpEntry(url, issue, severity, message, expectation) ==
    Obj([url |-> Str(url), issue |-> Str(issue), severity |-> Str(severity),
         message |-> Str(message), expectation |-> Str(expectation)])

\* type A11ySeverity = 'Serious' | 'Critical'
A11ySeverity == {"Serious", "Critical"}

\* the object literal of the development branch of RULES_HELP
RuleCatalog ==
    [CONTRAST_FAILED |-> RuleHelpEntry(
        "/guidelines/contrast",
        "Contrast failed",
        "Serious",
        "Text contrast does not meet accessibility requirements.",
        "Ensure text has sufficient contrast against its background."),
     CONTRAST_FAILED_AAA |-> RuleHelpEntry(
        "/guidelines/contrast",
        "Contrast failed AAA",
        "Serious",
        "Text contrast does not meet AAA accessibility requirements.",
        "Ensure text has sufficient contrast for AAA compliance."),
     MINIMUM_SIZE |-> RuleHelpEntry(
        "/guidelines/minimum-size",
        "Minimum size not met",
        "Serious",
        "Interactive elements must meet minimum size requirements.",
        "Ensure interactive elements are at least 44x44 points."),
     UPPERCASE_TEXT_NO_ACCESSIBILITY_LABEL |-> RuleHelpEntry(
        "/guidelines/text",
        "Uppercase text without accessibility label",
        "Serious",
        "Uppercase text may be read letter-by-letter by screen readers.",
        "Provide an accessibility label with properly formatted text."),
     NO_UPPERCASE_TEXT |-> RuleHelpEntry(
        "/guidelines/text",
        "Uppercase text detected",
        "Serious",
        "Uppercase text may be difficult to read and understand.",
        "Use sentence case instead of all uppercase text."),
     NO_ACCESSIBILITY_LABEL |-> RuleHelpEntry(
        "/guidelines/accessibility-label",
        "Missing accessibility label",
        "Critical",
        "Screen readers rely on accessibility labels to announce the purpose of elements. Without labels, visually impaired users can't understand the functionality.",
        "Add a descriptive aria-label prop clearly explaining the element's action (e.g., \"Add to cart\", \"Go back\")."),
     NO_ACCESSIBILITY_ROLE |-> RuleHelpEntry(
        "/guidelines/accessibility-role",
        "Missing accessibility role",
        "Critical",
        "Accessibility roles help users understand how to interact with an element, indicating what action can be performed and what outcome to expect.",
        "Specify an appropriate aria-role prop (e.g., \"button\", \"link\") for the component."),
     NO_KEYBOARD_TRAP |-> RuleHelpEntry(
        "/guidelines/forms",
        "Keyboard trap detected",
        "Critical",
        "Users must be able to navigate away from elements using keyboard.",
        "Ensure all interactive elements can be navigated away from using keyboard."),
     NO_FORM_LABEL |-> RuleHelpEntry(
        "/guidelines/forms",
        "Form missing label",
        "Critical",
        "Form inputs must have associated labels for accessibility.",
        "Add appropriate labels to all form inputs."),
     NO_FORM_ERROR |-> RuleHelpEntry(
        "/guidelines/forms",
        "Form missing error handling",
        "Serious",
        "Form errors must be properly communicated to users.",
        "Implement proper error messaging and validation feedback."),
     FLATLIST_NO_COUNT_IN_SINGULAR_MESSAGE |-> RuleHelpEntry(
        "/guidelines/lists-grids#number-of-results",
        "FlatList missing count in singular message",
        "Serious",
        "List count information helps users understand the content scope.",
        "Include item count in singular accessibility messages."),
     FLATLIST_NO_COUNT_IN_PLURAL_MESSAGE |-> RuleHelpEntry(
        "/guidelines/lists-grids#number-of-results",
        "FlatList missing count in plural message",
        "Serious",
        "List count information helps users understand the content scope.",
        "Include item count in plural accessibility messages."),
     BOTTOM_SHEET_CLOSE_ACTION |-> RuleHelpEntry(
        "/guidelines/bottomsheet",
        "Bottom sheet missing close action",
        "Critical",
        "Bottom sheets must provide accessible ways to close them.",
        "Add accessible close button or gesture handling."),
     INCOMPATIBLE_ACCESSIBILITY_STATE |-> RuleHelpEntry(
        "/guidelines/accessibility-role",
        "Incompatible accessibility state",
        "Serious",
        "Accessibility state conflicts with the element role.",
        "Ensure accessibility state is compatible with the element role."),
     INCOMPATIBLE_ACCESSIBILITY_ROLE |-> RuleHelpEntry(
        "/guidelines/accessibility-role",
        "Incompatible accessibility role",
        "Serious",
        "The accessibility role does not match the element purpose.",
        "Use an appropriate accessibility role for the element."),
     NO_FORM_LABEL_ENDING_WITH_ASTERISK |-> RuleHelpEntry(
        "/guidelines/forms#labels",
        "Form label ending with asterisk",
        "Serious",
        "Asterisks in labels may not be announced by screen readers.",
        "Use explicit required field indicators instead of asterisks.")]

\* mutant: NO_ACCESSIBILITY_ROLE downgraded to Serious
RULES_HELP_roleSerious(dev) ==
    IF dev
    THEN Obj([RuleCatalog EXCEPT
                !.NO_ACCESSIBILITY_ROLE.props.severity = Str("Serious")])
    ELSE null

\* mutant: MINIMUM_SIZE upgraded to Critical
RULES_HELP_minimumSizeCritical(dev) ==
    IF dev
    THEN Obj([RuleCatalog EXCEPT !.MINIMUM_SIZE.props.severity = Str("Critical")])
    ELSE null

\* const RULES_HELP = __DEV__ ? {...} : null
RULES_HELP(dev) == IF dev THEN Obj(RuleCatalog) ELSE null

\* const SEVERITIES = __DEV__ ? {Serious: 'Serious', Critical: 'Critical'} : null
SEVERITIES(dev) ==
    IF dev THEN Obj([Serious |-> Str("Serious"), Critical |-> Str("Critical")])
    ELSE null

\* the prefix of the template literal that builds the report's url
DocsBaseUrl == "https://nearform.com/open-source/react-native-ama/"

\* The outcome of a call on the rule engine: whether it returned, the value
\* returned (or the error thrown), and RULES_HELP as the call leaves it.
Returned(v, rh) == [ok |-> TRUE, v |-> v, rulesHelp |-> rh]
Threw(e, rh) == [ok |-> FALSE, v |-> e, rulesHelp |-> rh]

\* mutant: the reason is appended whether or not the issue has one
getRuleErrorInfo_alwaysAppends(rh, issue) ==
    LET ruleHelp == GetProp(rh, issue.rule)
    IN  IF ~ruleHelp.ok THEN Threw(ruleHelp.v, rh)
        ELSE
        LET message0 == GetProp(ruleHelp.v, "message")
        IN  IF ~message0.ok THEN Threw(message0.v, rh)
            ELSE
            LET message == Str(ToStr(message0.v) \o ": " \o ToStr(issue.reason))
                url == Str(DocsBaseUrl \o ToStr(GetProp(ruleHelp.v, "url").v))
                severity == GetProp(ruleHelp.v, "severity").v
            IN  Returned([message |-> message, url |-> url, severity |-> severity], rh)

\* mutant: an absent entry is read with optional chaining (ruleHelp?.message)
getRuleErrorInfo_optionalChaining(rh, issue) ==
    LET ruleHelp == GetProp(rh, issue.rule)
    IN  IF ~ruleHelp.ok THEN Threw(ruleHelp.v, rh)
        ELSE
        LET field(name) == IF ruleHelp.v.t \in {"undefined", "null"}
                           THEN undefined ELSE GetProp(ruleHelp.v, name).v
            message == IF Truthy(issue.reason)
                       THEN Str(ToStr(field("message")) \o ": " \o ToStr(issue.reason))
                       ELSE field("message")
            url == Str(DocsBaseUrl \o ToStr(field("url")))
        IN  Returned([message |-> message, url |-> url,
                      severity |-> field("severity")], rh)

\* mutant: the message is extended in place (ruleHelp.message += ...)
getRuleErrorInfo_mutatesEntry(rh, issue) ==
    LET ruleHelp == GetProp(rh, issue.rule)
    IN  IF ~ruleHelp.ok THEN Threw(ruleHelp.v, rh)
        ELSE
        LET message0 == GetProp(ruleHelp.v, "message")
        IN  IF ~message0.ok THEN Threw(message0.v, rh)
            ELSE
            LET message == IF Truthy(issue.reason)
                           THEN Str(ToStr(message0.v) \o ": " \o ToStr(issue.reason))
                           ELSE message0.v
                url == Str(DocsBaseUrl \o ToStr(GetProp(ruleHelp.v, "url").v))
                severity == GetProp(ruleHelp.v, "severity").v
                rh2 == IF issue.rule \in DOMAIN rh.props
                       THEN [rh EXCEPT !.props[issue.rule].props.message = message]
                       ELSE rh
            IN  Returned([message |-> message, url |-> url, severity |-> severity], rh2)

\* mutant: the absolute url is stored back into the entry (ruleHelp.url = ...)
getRuleErrorInfo_storesUrl(rh, issue) ==
    LET ruleHelp == GetProp(rh, issue.rule)
    IN  IF ~ruleHelp.ok THEN Threw(ruleHelp.v, rh)
        ELSE
        LET message0 == GetProp(ruleHelp.v, "message")
        IN  IF ~message0.ok THEN Threw(message0.v, rh)
            ELSE
            LET message == IF Truthy(issue.reason)
                           THEN Str(ToStr(message0.v) \o ": " \o ToStr(issue.reason))
                           ELSE message0.v
                url == Str(DocsBaseUrl \o ToStr(GetProp(ruleHelp.v, "url").v))
                severity == GetProp(ruleHelp.v, "severity").v
                rh2 == IF issue.rule \in DOMAIN rh.props
                       THEN [rh EXCEPT !.props[issue.rule].props.url = url]
                       ELSE rh
            IN  Returned([message |-> message, url |-> url, severity |-> severity], rh2)

\* (issue: A11yIssue) => { ... return { message, url, severity } }
getRuleErrorInfo(rh, issue) ==
    LET ruleHelp == GetProp(rh, issue.rule)
    IN  IF ~ruleHelp.ok THEN Threw(ruleHelp.v, rh)
        ELSE
        LET message0 == GetProp(ruleHelp.v, "message")
        IN  IF ~message0.ok THEN Threw(message0.v, rh)
            ELSE
            LET message == IF Truthy(issue.reason)
                           THEN Str(ToStr(message0.v) \o ": " \o ToStr(issue.reason))
                           ELSE message0.v
                url == Str(DocsBaseUrl \o ToStr(GetProp(ruleHelp.v, "url").v))
                severity == GetProp(ruleHelp.v, "severity").v
            IN  Returned([message |-> message, url |-> url, severity |-> severity], rh)

\* ({ issue }) => <>...</>: the texts the fragment renders
GetRuleError(rh, sev, issue) ==
    LET ruleHelp == GetProp(rh, issue.rule)
    IN  IF ~ruleHelp.ok THEN Threw(ruleHelp.v, rh)
        ELSE
        LET issueText == GetProp(ruleHelp.v, "issue")
        IN  IF ~issueText.ok THEN Threw(issueText.v, rh)
            ELSE
            LET severity == GetProp(sev, ToStr(GetProp(ruleHelp.v, "severity").v))
            IN  IF ~severity.ok THEN Threw(severity.v, rh)
                ELSE Returned([issue |-> issueText.v,
                               severity |-> severity.v,
                               message |-> GetProp(ruleHelp.v, "message").v,
                               expectation |-> GetProp(ruleHelp.v, "expectation").v], rh)

\* mutant: the function is exported in every build
ExportGetRuleErrorInfo_always(dev) == [t |-> "function"]

\* calling an export: a TypeError when the export is null
CallExport(fn, rh, outcome) ==
    IF fn.t = "function" THEN outcome ELSE Threw(Str("TypeError"), rh)

\* export const getRuleErrorInfo = __DEV__ ? (issue) => {...} : null
ExportGetRuleErrorInfo(dev) == IF dev THEN [t |-> "function"] ELSE null

\* export const GetRuleError = __DEV__ ? ({ issue }) => {...} : null
ExportGetRuleError(dev) == IF dev THEN [t |-> "function"] ELSE null

(***************************************************************************)
(* The rule evaluator and the reporter (specification sections 2, 6, 8)    *)
(***************************************************************************)
\* the smallest width and height, in logical points, of a touch target
MINIMUM_TOUCHABLE_SIZE == 44

Issue(rule, reason) == [rule |-> rule, reason |-> reason]

checkAccessibilityLabel(el) ==
    IF el.hasLabel THEN <<>> ELSE <<Issue("NO_ACCESSIBILITY_LABEL", undefined)>>

checkAccessibilityRole(el) ==
    IF el.hasRole THEN <<>> ELSE <<Issue("NO_ACCESSIBILITY_ROLE", undefined)>>

checkMinimumSize(el) ==
    IF el.width < MINIMUM_TOUCHABLE_SIZE \/ el.height < MINIMUM_TOUCHABLE_SIZE
    THEN <<Issue("MINIMUM_SIZE", undefined)>>
    ELSE <<>>

\* the issues a pressable element yields
PressableChecks(el) ==
    checkAccessibilityLabel(el) \o checkAccessibilityRole(el) \o checkMinimumSize(el)

\* the reporter: the exported getRuleErrorInfo over the issues, in order
RECURSIVE Report(_, _)
Report(rh, issues) ==
    IF issues = <<>> THEN [reports |-> <<>>, rulesHelp |-> rh]
    ELSE LET r == CallExport(exported.getRuleErrorInfo, rh,
                             getRuleErrorInfo(rh, Head(issues)))
             rest == Report(r.rulesHelp, Tail(issues))
         IN  [reports |-> <<[ok |-> r.ok, v |-> r.v]>> \o rest.reports,
              rulesHelp |-> rest.rulesHelp]

(***************************************************************************)
(* Inputs of the rule engine                                               *)
(***************************************************************************)
CatalogRules == DOMAIN RuleCatalog
\* identifiers the catalog has no entry for
UnknownRules == {"UNKNOWN_RULE"}
\* identifiers the catalog has no entry for, which name inherited properties
InheritedRules == {"constructor", "toLocaleString"}
Rules == CatalogRules \cup UnknownRules \cup InheritedRules
Reasons == {undefined, Str(""), Str("found 30x30")}
Issues == [rule : Rules, reason : Reasons]

\* how far above the minimum size the sampled sizes reach
MaxSizeAboveMinimum == 0
Sizes == {30} \cup ((MINIMUM_TOUCHABLE_SIZE - 1) ..
                    (MINIMUM_TOUCHABLE_SIZE + MaxSizeAboveMinimum))
Elements == [hasLabel : BOOLEAN, hasRole : BOOLEAN, width : Sizes, height : Sizes]

\* the issues whose repeated evaluation is observed
ProbeIssues ==
    {Issue("MINIMUM_SIZE", Str("found 30x30")),
     Issue("NO_ACCESSIBILITY_LABEL", undefined),
     Issue("UNKNOWN_RULE", Str("")),
     Issue("constructor", Str("found 30x30"))}

NotYet == [pending |-> TRUE]

(***************************************************************************)
(* Operations of the rule engine                                           *)
(***************************************************************************)
\* the probe's progress after an operation that is not getRuleErrorInfo(probe)
OtherOperation ==
    /\ probeStage' = (IF probeStage = "first" THEN "between" ELSE probeStage)
    /\ UNCHANGED probeFirst

CallGetRuleErrorInfo(issue) ==
    LET r == CallExport(exported.getRuleErrorInfo, RulesHelp,
                        getRuleErrorInfo(RulesHelp, issue))
    IN  /\ last' = [op |-> "getRuleErrorInfo", issue |-> issue, ok |-> r.ok, v |-> r.v]
        /\ RulesHelp' = r.rulesHelp
        /\ IF issue = probe
           THEN /\ probeFirst' = (IF probeStage = "none"
                                  THEN [ok |-> r.ok, v |-> r.v] ELSE probeFirst)
                /\ probeStage' = (CASE probeStage = "none" -> "first"
                                    [] probeStage = "first" -> "again"
                                    [] probeStage = "between" -> "againBetween"
                                    [] OTHER -> probeStage)
           ELSE OtherOperation
        /\ UNCHANGED <<DEV, Severities, exported, probe>>
        /\ UNCHANGED polyVars

CallGetRuleError(issue) ==
    LET r == CallExport(exported.GetRuleError, RulesHelp,
                        GetRuleError(RulesHelp, Severities, issue))
    IN  /\ last' = [op |-> "GetRuleError", issue |-> issue, ok |-> r.ok, v |-> r.v]
        /\ RulesHelp' = r.rulesHelp
        /\ OtherOperation
        /\ UNCHANGED <<DEV, Severities, exported, probe>>
        /\ UNCHANGED polyVars

\* a development render pass over one pressable element: the checks run and
\* each issue is reported; a production build runs no checks
RenderPressable(el) ==
    LET issues == IF DEV THEN PressableChecks(el) ELSE <<>>
        r == Report(RulesHelp, issues)
    IN  /\ last' = [op |-> "render", element |-> el, issues |-> issues,
                    reports |-> r.reports]
        /\ RulesHelp' = r.rulesHelp
        /\ OtherOperation
        /\ UNCHANGED <<DEV, Severities, exported, probe>>
        /\ UNCHANGED polyVars

InitRules ==
    /\ DEV \in BOOLEAN
    /\ RulesHelp = RULES_HELP(DEV)
    /\ Severities = SEVERITIES(DEV)
    /\ exported = [getRuleErrorInfo |-> ExportGetRuleErrorInfo(DEV),
                   GetRuleError |-> ExportGetRuleError(DEV)]
    /\ last = [op |-> "none"]
    /\ probe \in ProbeIssues
    /\ probeFirst = NotYet
    /\ probeStage = "none"

(***************************************************************************)
(* accessibility-info-polyfill.js                                          *)
(***************************************************************************)
ReducedMotionQuery == "(prefers-reduced-motion: reduce)"
ForcedColorsQuery == "(forced-colors: active)"
HighContrastQuery == "(prefers-contrast: high)"
MediaQueries == {ReducedMotionQuery, ForcedColorsQuery, HighContrastQuery}

\* a promise that has resolved with v; caught tells whether a catch block ran
Resolved(v, caught) == [status |-> "resolved", value |-> v, caught |-> caught]

\* the same, with the queries that were passed to window.matchMedia, in order
ResolvedAfter(v, caught, consulted) ==
    [status |-> "resolved", value |-> v, caught |-> caught, consulted |-> consulted]

\* a promise that has rejected
Rejected(e) == [status |-> "rejected", value |-> Str(e), caught |-> FALSE]

\* a MediaQueryList; api tells how listeners are added and removed: "modern"
\* has addEventListener and removeEventListener, "legacy" has only addListener
\* and removeListener, "none" has neither pair, and the addEventListener and
\* removeEventListener of "throws" throw
ListApis == {"modern", "legacy", "none", "throws"}
MediaQueryList(api, matches) ==
    [t |-> "MediaQueryList", api |-> api, matches |-> matches]

\* window.matchMedia(q).matches
MatchMediaMatches(q) ==
    IF media[q] = "throws" THEN Throw("Error") ELSE Ok(Bool(media[q] = "matches"))

\* window.matchMedia && window.matchMedia(q).matches
MatchMediaAndMatches(q) ==
    IF ~hasMatchMedia THEN Ok(undefined) ELSE MatchMediaMatches(q)

\* document.activeElement !== document.body
ActiveElementIsNotBody ==
    IF activeElement = "throws" THEN Throw("Error") ELSE Ok(Bool(activeElement # "body"))

\* a || b, where the operands may throw: b is evaluated only when a is falsy
OrElse(a, b) == IF ~a.ok THEN a ELSE IF Truthy(a.v) THEN a ELSE b

\* mutant: the forced-colors indicator is left out
isScreenReaderEnabled_withoutForcedColors ==
    IF ~windowDefined THEN Resolved(Bool(FALSE), FALSE)
    ELSE LET hasAccessibleNavigation ==
                 OrElse(ActiveElementIsNotBody,
                        MatchMediaAndMatches(ReducedMotionQuery))
         IN  IF hasAccessibleNavigation.ok
             THEN Resolved(hasAccessibleNavigation.v, FALSE)
             ELSE Resolved(Bool(FALSE), TRUE)

\* mutant: an exception of the detection escapes as a rejection
isScreenReaderEnabled_withoutCatch ==
    IF ~windowDefined THEN Resolved(Bool(FALSE), FALSE)
    ELSE LET hasAccessibleNavigation ==
                 OrElse(ActiveElementIsNotBody,
                        OrElse(MatchMediaAndMatches(ReducedMotionQuery),
                               MatchMediaAndMatches(ForcedColorsQuery)))
         IN  IF hasAccessibleNavigation.ok
             THEN Resolved(hasAccessibleNavigation.v, FALSE)
             ELSE Rejected("Error")

isScreenReaderEnabled ==
    IF ~windowDefined THEN Resolved(Bool(FALSE), FALSE)
    ELSE LET hasAccessibleNavigation ==
                 OrElse(ActiveElementIsNotBody,
                        OrElse(MatchMediaAndMatches(ReducedMotionQuery),
                               MatchMediaAndMatches(ForcedColorsQuery)))
         IN  IF hasAccessibleNavigation.ok
             THEN Resolved(hasAccessibleNavigation.v, FALSE)
             ELSE Resolved(Bool(FALSE), TRUE)

\* mutant: an exception of the detection escapes as a rejection
isReduceMotionEnabled_withoutCatch ==
    IF prefersReducedMotionMedia # null
    THEN Resolved(Bool(prefersReducedMotionMedia.matches), FALSE)
    ELSE IF windowDefined /\ hasMatchMedia
         THEN LET mediaQuery == MatchMediaMatches(ReducedMotionQuery)
              IN  IF mediaQuery.ok THEN Resolved(mediaQuery.v, FALSE)
                  ELSE Rejected("Error")
         ELSE Resolved(Bool(FALSE), FALSE)

\* mutant: the fresh query of the fallback is left out
isReduceMotionEnabled_withoutFallback ==
    IF prefersReducedMotionMedia # null
    THEN Resolved(Bool(prefersReducedMotionMedia.matches), FALSE)
    ELSE Resolved(Bool(FALSE), FALSE)

\* the list captured at load has a boolean matches whenever it is not null
isReduceMotionEnabled ==
    IF prefersReducedMotionMedia # null
    THEN Resolved(Bool(prefersReducedMotionMedia.matches), FALSE)
    ELSE IF windowDefined /\ hasMatchMedia
         THEN LET mediaQuery == MatchMediaMatches(ReducedMotionQuery)
              IN  IF mediaQuery.ok THEN Resolved(mediaQuery.v, FALSE)
                  ELSE Resolved(Bool(FALSE), TRUE)
         ELSE Resolved(Bool(FALSE), FALSE)

\* mutant: forced colors are asked first
isHighContrastEnabled_forcedColorsFirst ==
    IF windowDefined /\ hasMatchMedia
    THEN LET highContrastQuery == MatchMediaMatches(HighContrastQuery)
             forcedColors == MatchMediaMatches(ForcedColorsQuery)
         IN  IF forcedColors.ok
             THEN ResolvedAfter(forcedColors.v, FALSE, <<ForcedColorsQuery>>)
             ELSE IF highContrastQuery.ok
             THEN ResolvedAfter(highContrastQuery.v, TRUE,
                                <<ForcedColorsQuery, HighContrastQuery>>)
             ELSE ResolvedAfter(Bool(FALSE), TRUE,
                                <<ForcedColorsQuery, HighContrastQuery>>)
    ELSE ResolvedAfter(Bool(FALSE), FALSE, <<>>)

isHighContrastEnabled ==
    IF windowDefined /\ hasMatchMedia
    THEN LET highContrastQuery == MatchMediaMatches(HighContrastQuery)
             forcedColors == MatchMediaMatches(ForcedColorsQuery)
         IN  IF highContrastQuery.ok
             THEN ResolvedAfter(highContrastQuery.v, FALSE, <<HighContrastQuery>>)
             ELSE IF forcedColors.ok
             THEN ResolvedAfter(forcedColors.v, TRUE,
                                <<HighContrastQuery, ForcedColorsQuery>>)
             ELSE ResolvedAfter(Bool(FALSE), TRUE,
                                <<HighContrastQuery, ForcedColorsQuery>>)
    ELSE ResolvedAfter(Bool(FALSE), FALSE, <<>>)

isReduceTransparencyEnabled == Resolved(Bool(FALSE), FALSE)
isBoldTextEnabled == Resolved(Bool(FALSE), FALSE)
isGrayscaleEnabled == Resolved(Bool(FALSE), FALSE)
isInvertColorsEnabled == Resolved(Bool(FALSE), FALSE)
\* mutant: the stub answers with the reduced-motion preference
isReduceMotionAndAnimationsEnabled_delegates ==
    Resolved(Bool(windowDefined /\ hasMatchMedia
                  /\ media[ReducedMotionQuery] = "matches"), FALSE)
isReduceMotionAndAnimationsEnabled == Resolved(Bool(FALSE), FALSE)
isDarkerSystemColorsEnabled == Resolved(Bool(FALSE), FALSE)
isOnOffSwitchLabelsEnabled == Resolved(Bool(FALSE), FALSE)
isClosedCaptionEnabled == Resolved(Bool(FALSE), FALSE)
isMonoAudioEnabled == Resolved(Bool(FALSE), FALSE)
isShakeToUndoEnabled == Resolved(Bool(FALSE), FALSE)
isAssistiveTouchRunning == Resolved(Bool(FALSE), FALSE)
isSwitchControlRunning == Resolved(Bool(FALSE), FALSE)
isVoiceOverRunning == Resolved(Bool(FALSE), FALSE)
isTalkBackRunning == Resolved(Bool(FALSE), FALSE)
isAccessibilityServiceEnabled == Resolved(Bool(FALSE), FALSE)

\* the state methods of the exported object: what a call of each resolves to
ExtendedAccessibilityInfo ==
    [isScreenReaderEnabled |-> isScreenReaderEnabled,
     isReduceMotionEnabled |-> isReduceMotionEnabled,
     fetch |-> isScreenReaderEnabled,
     isReduceTransparencyEnabled |-> isReduceTransparencyEnabled,
     isBoldTextEnabled |-> isBoldTextEnabled,
     isGrayscaleEnabled |-> isGrayscaleEnabled,
     isInvertColorsEnabled |-> isInvertColorsEnabled,
     isReduceMotionAndAnimationsEnabled |-> isReduceMotionAndAnimationsEnabled,
     isHighContrastEnabled |-> isHighContrastEnabled,
     isDarkerSystemColorsEnabled |-> isDarkerSystemColorsEnabled,
     isOnOffSwitchLabelsEnabled |-> isOnOffSwitchLabelsEnabled,
     isClosedCaptionEnabled |-> isClosedCaptionEnabled,
     isMonoAudioEnabled |-> isMonoAudioEnabled,
     isShakeToUndoEnabled |-> isShakeToUndoEnabled,
     isAssistiveTouchRunning |-> isAssistiveTouchRunning,
     isSwitchControlRunning |-> isSwitchControlRunning,
     isVoiceOverRunning |-> isVoiceOverRunning,
     isTalkBackRunning |-> isTalkBackRunning,
     isAccessibilityServiceEnabled |-> isAccessibilityServiceEnabled]

StateMethods == DOMAIN ExtendedAccessibilityInfo

NoCall == [method |-> "none"]

(***************************************************************************)
(* Event listeners                                                         *)
(***************************************************************************)
ReduceMotionChanged == "reduceMotionChanged"
mockEvents == {"reduceTransparencyChanged", "boldTextChanged", "grayscaleChanged",
               "invertColorsChanged", "screenReaderChanged"}
UnknownEvents == {"unknownEvent"}
EventNames == {ReduceMotionChanged} \cup mockEvents \cup UnknownEvents

\* the handler functions of the callers; h1 and h2 are two functions with the
\* same source text, as two instances of one callback are
Handlers == {"h1", "h2", "h3"}
SourceText(handler) == IF handler = "h3" THEN "(m) => setB(m)" ELSE "(m) => setA(m)"
\* handlers[handler]: the key of a plain object is the string conversion of
\* the function, which is its source text
HandlerKey(handler) == SourceText(handler)
HandlerKeys == {HandlerKey(h) : h \in Handlers}

MaxListeners == 2

Fn(body) == [t |-> "function", body |-> body]
\* { remove: () => {} }
NoopSubscription == [remove |-> Fn(<<"noop">>)]
\* { remove: () => ExtendedAccessibilityInfo.removeEventListener(eventName, handler) }
RemovingSubscription(eventName, handler) ==
    [remove |-> Fn(<<"removeEventListener", eventName, handler>>)]

\* const listener = (event) => { handler(event.matches) }, a new closure per call
NewListener(id, handler) == [id |-> id, handler |-> handler]
MediaQueryListEvent(matches) == [t |-> "MediaQueryListEvent", matches |-> Bool(matches)]
\* mutant: the handler is given the event
ListenerCall_passesEvent(listener, event) ==
    [listener |-> listener.id, handler |-> listener.handler, arg |-> event]
\* listener(event): the call of the handler it makes
ListenerCall(listener, event) ==
    [listener |-> listener.id, handler |-> listener.handler, arg |-> event.matches]

\* the listeners of the list after addChangeListener or removeChangeListener,
\* whether a warning was logged and whether the call threw
ChangeListeners(r, warned, threw) == [registered |-> r, warned |-> warned, threw |-> threw]

\* mutant: what the list throws is not caught
addChangeListener_withoutCatch(fn) ==
    IF prefersReducedMotionMedia # null
    THEN IF prefersReducedMotionMedia.api = "throws"
         THEN ChangeListeners(registered, FALSE, TRUE)
         ELSE IF prefersReducedMotionMedia.api = "modern"
         THEN ChangeListeners(registered \cup {fn}, FALSE, FALSE)
         ELSE IF prefersReducedMotionMedia.api = "legacy"
         THEN ChangeListeners(registered \cup {fn}, FALSE, FALSE)
         ELSE ChangeListeners(registered, FALSE, FALSE)
    ELSE ChangeListeners(registered, FALSE, FALSE)

\* addChangeListener(fn): prefersReducedMotionMedia.addEventListener('change', fn)
\* when the list has addEventListener, else .addListener(fn) when it has
\* addListener, else nothing; what the list throws is caught and logged
addChangeListener(fn) ==
    IF prefersReducedMotionMedia # null
    THEN IF prefersReducedMotionMedia.api = "throws"
         THEN ChangeListeners(registered, TRUE, FALSE)
         ELSE IF prefersReducedMotionMedia.api = "modern"
         THEN ChangeListeners(registered \cup {fn}, FALSE, FALSE)
         ELSE IF prefersReducedMotionMedia.api = "legacy"
         THEN ChangeListeners(registered \cup {fn}, FALSE, FALSE)
         ELSE ChangeListeners(registered, FALSE, FALSE)
    ELSE ChangeListeners(registered, FALSE, FALSE)

\* removeChangeListener(fn): the same with removeEventListener or removeListener
removeChangeListener(fn) ==
    IF prefersReducedMotionMedia # null
    THEN IF prefersReducedMotionMedia.api = "throws"
         THEN ChangeListeners(registered, TRUE, FALSE)
         ELSE IF prefersReducedMotionMedia.api = "modern"
         THEN ChangeListeners(registered \ {fn}, FALSE, FALSE)
         ELSE IF prefersReducedMotionMedia.api = "legacy"
         THEN ChangeListeners(registered \ {fn}, FALSE, FALSE)
         ELSE ChangeListeners(registered, FALSE, FALSE)
    ELSE ChangeListeners(registered, FALSE, FALSE)

\* the handlers map and the listeners of the list after a call that returned
\* sub, and whether the call logged a warning
ListenerState(h, r, sub) ==
    [handlers |-> h, registered |-> r, subscription |-> sub,
     outcome |-> Ok(sub), warned |-> FALSE]
Warned(state, warned) == [state EXCEPT !.warned = warned]
\* the same after a call that threw
ListenerThrew(h, r) ==
    [handlers |-> h, registered |-> r, subscription |-> undefined,
     outcome |-> Throw("Error"), warned |-> FALSE]

\* mutant: the mock events register the listener as well
addEventListener_registersMockEvents(eventName, handler) ==
    IF eventName \in {ReduceMotionChanged} \cup mockEvents
    THEN LET listener == NewListener(nextListener, handler)
         IN  ListenerState([handlers EXCEPT ![HandlerKey(handler)] = listener],
                           registered \cup {listener},
                           RemovingSubscription(eventName, handler))
    ELSE ListenerState(handlers, registered, NoopSubscription)

\* addEventListener(eventName, handler): the handlers map and the listeners of
\* the list after the call, and the subscription returned
addEventListener(eventName, handler) ==
    IF eventName = ReduceMotionChanged
    THEN IF prefersReducedMotionMedia = null
         THEN ListenerState(handlers, registered, NoopSubscription)
         ELSE LET listener == NewListener(nextListener, handler)
                  added == addChangeListener(listener)
              IN  IF added.threw
                  THEN ListenerThrew(handlers, added.registered)
                  ELSE Warned(ListenerState(
                                  [handlers EXCEPT ![HandlerKey(handler)] = listener],
                                  added.registered,
                                  RemovingSubscription(eventName, handler)),
                              added.warned)
    ELSE IF eventName \in mockEvents
    THEN ListenerState(handlers, registered, NoopSubscription)
    ELSE ListenerState(handlers, registered, NoopSubscription)

\* removeEventListener(eventName, handler)
removeEventListener(eventName, handler) ==
    IF eventName = ReduceMotionChanged
    THEN LET listener == handlers[HandlerKey(handler)]
         IN  IF listener = undefined \/ prefersReducedMotionMedia = null
             THEN ListenerState(handlers, registered, undefined)
             ELSE LET removed == removeChangeListener(listener)
                  IN  IF removed.threw
                      THEN ListenerThrew(handlers, removed.registered)
                      ELSE Warned(ListenerState(
                                      [handlers EXCEPT ![HandlerKey(handler)] = undefined],
                                      removed.registered, undefined),
                                  removed.warned)
    ELSE ListenerState(handlers, registered, undefined)

(***************************************************************************)
(* Announcements                                                           *)
(***************************************************************************)
PoliteRegion == "accessibility-live-region"
AssertiveRegion == "accessibility-live-region-assertive"
LiveRegionIds == {PoliteRegion, AssertiveRegion}
Messages == {"m1", "m2"}
MaxAnnouncements == 2
SpeechModes == {"absent", "ok", "cancelThrows", "utteranceThrows", "speakThrows"}
DomModes == {"ok", "createThrows", "appendThrows"}

\* mutant: the ongoing speech is not cancelled
SpeechStep_withoutCancel ==
    IF windowDefined /\ speech # "absent"
    THEN IF speech = "utteranceThrows" THEN <<>> ELSE <<"speak">>
    ELSE <<>>

\* the speech step of announceForAccessibility: the methods of
\* window.speechSynthesis it calls, in order; an exception ends the step
SpeechStep ==
    IF windowDefined /\ speech # "absent"
    THEN IF speech = "cancelThrows" THEN <<"cancel">>
         ELSE IF speech = "utteranceThrows" THEN <<"cancel">>
         ELSE <<"cancel", "speak">>
    ELSE <<>>

\* a live region of the document: how many elements with the id the document
\* holds, their attributes and text, and the message of the latest
\* announcement that obtained the region
NoRegion == [count |-> 0, text |-> "", ariaLive |-> "none", ariaAtomic |-> "none",
             latest |-> "none"]

StepResult(regions, pending, threw) ==
    [liveRegions |-> regions, timers |-> pending, threw |-> threw]

\* mutant: a region is created and appended by every announcement
LiveRegionStep_alwaysAppends(id, ariaLive, message) ==
    IF windowDefined /\ hasDocument
    THEN IF dom # "ok"
         THEN StepResult(liveRegions, timers, TRUE)
         ELSE StepResult([liveRegions EXCEPT ![id] =
                             [count |-> @.count + 1, text |-> "",
                              ariaLive |-> ariaLive, ariaAtomic |-> "true",
                              latest |-> message]],
                         Append(timers, [region |-> id, message |-> message]),
                         FALSE)
    ELSE StepResult(liveRegions, timers, FALSE)

\* mutant: the message is written at once, without clearing and without timer
LiveRegionStep_withoutTimer(id, ariaLive, message) ==
    IF windowDefined /\ hasDocument
    THEN IF liveRegions[id].count = 0 /\ dom # "ok"
         THEN StepResult(liveRegions, timers, TRUE)
         ELSE StepResult([liveRegions EXCEPT ![id] =
                             [count |-> 1, text |-> message,
                              ariaLive |-> IF @.count = 0 THEN ariaLive ELSE @.ariaLive,
                              ariaAtomic |-> "true", latest |-> message]],
                         timers, FALSE)
    ELSE StepResult(liveRegions, timers, FALSE)

\* the live-region step for the region with the given id, up to its catch
\* block: the regions and the timers after it, and whether it threw. The
\* element is looked up by id; it is created, given its attributes and
\* appended only when the look-up finds none; then its text is cleared and a
\* timer is set that writes the message
LiveRegionStep(id, ariaLive, message) ==
    IF windowDefined /\ hasDocument
    THEN IF liveRegions[id].count = 0 /\ dom # "ok"
         THEN StepResult(liveRegions, timers, TRUE)
         ELSE StepResult([liveRegions EXCEPT ![id] =
                             IF @.count = 0
                             THEN [count |-> 1, text |-> "", ariaLive |-> ariaLive,
                                   ariaAtomic |-> "true", latest |-> message]
                             ELSE [@ EXCEPT !.text = "", !.latest = message]],
                         Append(timers, [region |-> id, message |-> message]),
                         FALSE)
    ELSE StepResult(liveRegions, timers, FALSE)

\* the speech step throws inside its try block
SpeechStepThrows ==
    windowDefined /\ speech \in {"cancelThrows", "utteranceThrows", "speakThrows"}

\* the log of speechSynthesis calls after the speech step
SpeechLogAfter ==
    IF windowDefined /\ speech # "absent"
    THEN Append(speechLog, [mode |-> speech, calls |-> SpeechStep])
    ELSE speechLog

\* what a catch block logs
Logged(threw, text) == IF threw THEN <<text>> ELSE <<>>

\* state and outcome after an announcement; delegated lists the messages
\* passed on to announceForAccessibility
Announced(log, region, logged, outcome) ==
    [speechLog |-> log, liveRegions |-> region.liveRegions, timers |-> region.timers,
     logged |-> logged, outcome |-> outcome, delegated |-> <<>>]

\* mutant: the exceptions of the two steps escape
announceForAccessibility_withoutCatch(message) ==
    LET region == LiveRegionStep(PoliteRegion, "polite", message)
    IN  Announced(SpeechLogAfter, region, <<>>,
                  IF SpeechStepThrows \/ region.threw THEN Throw("Error")
                  ELSE Ok(undefined))

\* mutant: a failed speech step ends the announcement
announceForAccessibility_stopsAfterSpeechFailure(message) ==
    LET region == IF SpeechStepThrows THEN StepResult(liveRegions, timers, FALSE)
                  ELSE LiveRegionStep(PoliteRegion, "polite", message)
    IN  Announced(SpeechLogAfter, region,
                  Logged(SpeechStepThrows, "Speech synthesis failed")
                      \o Logged(region.threw, "ARIA live region failed"),
                  Ok(undefined))

\* announceForAccessibility(message): the speech step, then the live-region
\* step, each in its own try block
announceForAccessibility(message) ==
    LET region == LiveRegionStep(PoliteRegion, "polite", message)
    IN  Announced(SpeechLogAfter, region,
                  Logged(SpeechStepThrows, "Speech synthesis failed")
                      \o Logged(region.threw, "ARIA live region failed"),
                  Ok(undefined))

\* the options values of the callers
NoOptions == Obj(<<>>)
Queue(b) == Obj([queue |-> Bool(b)])
OptionsValues == {undefined, null, NoOptions, Queue(TRUE), Queue(FALSE)}

\* options && options.queue === false
NotQueued(options) ==
    Truthy(options) /\ GetProp(options, "queue").v = Bool(FALSE)

\* mutant: the assertive region is used unless queue is true
announceForAccessibilityWithOptions_unlessQueued(message, options) ==
    IF ~(Truthy(options) /\ GetProp(options, "queue").v = Bool(TRUE))
    THEN LET region == LiveRegionStep(AssertiveRegion, "assertive", message)
         IN  Announced(speechLog, region,
                       Logged(region.threw, "Assertive ARIA live region failed"),
                       Ok(undefined))
    ELSE [announceForAccessibility(message) EXCEPT !.delegated = <<message>>]

\* mutant: the assertive announcement is spoken as well
announceForAccessibilityWithOptions_alsoSpeaks(message, options) ==
    IF NotQueued(options)
    THEN LET region == LiveRegionStep(AssertiveRegion, "assertive", message)
         IN  Announced(SpeechLogAfter, region,
                       Logged(region.threw, "Assertive ARIA live region failed"),
                       Ok(undefined))
    ELSE [announceForAccessibility(message) EXCEPT !.delegated = <<message>>]

\* announceForAccessibilityWithOptions(message, options)
announceForAccessibilityWithOptions(message, options) ==
    IF NotQueued(options)
    THEN LET region == LiveRegionStep(AssertiveRegion, "assertive", message)
         IN  Announced(speechLog, region,
                       Logged(region.threw, "Assertive ARIA live region failed"),
                       Ok(undefined))
    ELSE [announceForAccessibility(message) EXCEPT !.delegated = <<message>>]

(***************************************************************************)
(* Runtime patching                                                        *)
(***************************************************************************)
ModuleNames == {"react-native", "react-native-web"}

\* the keys of the exported object
PolyfillMethods ==
    StateMethods \cup {"announceForAccessibilityWithOptions",
                       "getRecommendedTimeoutMillis", "sendAccessibilityEvent",
                       "setAccessibilityFocus", "announceForAccessibility",
                       "addEventListener", "removeEventListener"}

\* what require(name) gives: it throws ("unavailable"), or it returns a
\* module whose AccessibilityInfo is missing ("noInfo"), a function
\* ("function") or an object ("object") with methods of its own
Module(kind, own) == [kind |-> kind, methods |-> [n \in own |-> "original"]]
OwnMethodSets == {{}, {"isScreenReaderEnabled", "openSettings"},
                  {"addEventListener", "announceForAccessibility"}}
ModuleValues ==
    {Module(kind, {}) : kind \in {"unavailable", "noInfo", "function"}}
        \cup {Module("object", own) : own \in OwnMethodSets}

\* Object.assign(target, ExtendedAccessibilityInfo) on the methods of target
ObjectAssign(methods) ==
    [n \in DOMAIN methods \cup PolyfillMethods |->
        IF n \in PolyfillMethods THEN "polyfill" ELSE methods[n]]

\* one try block of the patching: the module after it, and whether the block
\* was left by an exception
PatchModule(module) ==
    IF module.kind = "unavailable"
    THEN [module |-> module, threw |-> TRUE, patched |-> 0]
    ELSE IF module.kind = "noInfo"
    THEN [module |-> module, threw |-> FALSE, patched |-> 0]
    ELSE IF module.kind = "object"
    THEN [module |-> [module EXCEPT !.methods = ObjectAssign(@)],
          threw |-> FALSE, patched |-> 1]
    ELSE [module |-> module, threw |-> FALSE, patched |-> 0]

\* mutant: both modules are patched in one try block
RuntimePatching_oneTryBlock(mods) ==
    IF windowDefined
    THEN LET reactNative == PatchModule(mods["react-native"])
             reactNativeWeb == PatchModule(mods["react-native-web"])
         IN  IF reactNative.threw
             THEN [modules |-> mods, patchedModules |-> 0]
             ELSE [modules |-> [n \in ModuleNames |->
                                   IF n = "react-native" THEN reactNative.module
                                   ELSE reactNativeWeb.module],
                   patchedModules |-> reactNative.patched + reactNativeWeb.patched]
    ELSE [modules |-> mods, patchedModules |-> 0]

\* the patching block at the end of the module: the modules after it and
\* the count of patched modules
RuntimePatching(mods) ==
    IF windowDefined
    THEN LET reactNative == PatchModule(mods["react-native"])
             reactNativeWeb == PatchModule(mods["react-native-web"])
         IN  [modules |-> [n \in ModuleNames |->
                              IF n = "react-native" THEN reactNative.module
                              ELSE reactNativeWeb.module],
              patchedModules |-> reactNative.patched + reactNativeWeb.patched]
    ELSE [modules |-> mods, patchedModules |-> 0]

(***************************************************************************)
(* Operations of the polyfill and of its host                              *)
(***************************************************************************)
\* ExtendedAccessibilityInfo[method]()
CallStateMethod(method) ==
    /\ lastCall' = [method |-> method, outcome |-> ExtendedAccessibilityInfo[method]]
    /\ delivered' = {}
    /\ UNCHANGED <<hostVars, prefersReducedMotionMedia, listenerVars, announceVars>>
    /\ UNCHANGED <<ruleVars, patchVars>>

\* the removals counted after one more removal of the handler: a removal
\* counts when an addition of the handler is still unanswered
Removed(handler) ==
    IF removeCount[handler] < addCount[handler]
    THEN [removeCount EXCEPT ![handler] = @ + 1]
    ELSE removeCount

\* ExtendedAccessibilityInfo.addEventListener(eventName, handler)
AddEventListener(eventName, handler) ==
    LET creates == eventName = ReduceMotionChanged /\ prefersReducedMotionMedia # null
        after == addEventListener(eventName, handler)
    IN  /\ creates => nextListener <= MaxListeners
        /\ handlers' = after.handlers
        /\ registered' = after.registered
        /\ nextListener' = IF creates THEN nextListener + 1 ELSE nextListener
        /\ addCount' = IF creates THEN [addCount EXCEPT ![handler] = @ + 1]
                       ELSE addCount
        /\ subscriptions' = IF after.outcome.ok
                            THEN subscriptions \cup {after.subscription}
                            ELSE subscriptions
        /\ UNCHANGED removeCount
        /\ lastCall' = [method |-> "addEventListener", eventName |-> eventName,
                        handler |-> handler, outcome |-> after.outcome,
                        warned |-> after.warned]
        /\ delivered' = {}
        /\ UNCHANGED <<hostVars, prefersReducedMotionMedia, announceVars>>
        /\ UNCHANGED <<ruleVars, patchVars>>

\* ExtendedAccessibilityInfo.removeEventListener(eventName, handler)
RemoveEventListener(eventName, handler) ==
    LET after == removeEventListener(eventName, handler)
    IN  /\ handlers' = after.handlers
        /\ registered' = after.registered
        /\ removeCount' = IF eventName = ReduceMotionChanged
                           THEN Removed(handler) ELSE removeCount
        /\ lastCall' = [method |-> "removeEventListener", eventName |-> eventName,
                        handler |-> handler, outcome |-> after.outcome,
                        warned |-> after.warned]
        /\ delivered' = {}
        /\ UNCHANGED <<nextListener, addCount, subscriptions>>
        /\ UNCHANGED <<hostVars, prefersReducedMotionMedia, announceVars>>
        /\ UNCHANGED <<ruleVars, patchVars>>

\* subscription.remove()
CallRemove(subscription) ==
    LET body == subscription.remove.body
        after == IF body[1] = "noop"
                 THEN ListenerState(handlers, registered, undefined)
                 ELSE removeEventListener(body[2], body[3])
    IN  /\ subscription \in subscriptions
        /\ handlers' = after.handlers
        /\ registered' = after.registered
        /\ removeCount' = IF body[1] = "noop" THEN removeCount ELSE Removed(body[3])
        /\ lastCall' = [method |-> "remove", subscription |-> subscription,
                        outcome |-> after.outcome, warned |-> after.warned]
        /\ delivered' = {}
        /\ UNCHANGED <<nextListener, addCount, subscriptions>>
        /\ UNCHANGED <<hostVars, prefersReducedMotionMedia, announceVars>>
        /\ UNCHANGED <<ruleVars, patchVars>>

\* ExtendedAccessibilityInfo.announceForAccessibility(message)
AnnounceForAccessibility(message) ==
    LET after == announceForAccessibility(message)
    IN  /\ Len(speechLog) < MaxAnnouncements
        /\ Len(timers) < MaxAnnouncements
        /\ speechLog' = after.speechLog
        /\ liveRegions' = after.liveRegions
        /\ timers' = after.timers
        /\ lastCall' = [method |-> "announceForAccessibility", message |-> message,
                        outcome |-> after.outcome, logged |-> after.logged]
        /\ delivered' = {}
        /\ UNCHANGED <<speech, hasDocument, dom>>
        /\ UNCHANGED <<hostVars, prefersReducedMotionMedia, listenerVars>>
        /\ UNCHANGED <<ruleVars, patchVars>>

\* ExtendedAccessibilityInfo.announceForAccessibilityWithOptions(message, options)
AnnounceForAccessibilityWithOptions(message, options) ==
    LET after == announceForAccessibilityWithOptions(message, options)
    IN  /\ Len(speechLog) < MaxAnnouncements
        /\ Len(timers) < MaxAnnouncements
        /\ speechLog' = after.speechLog
        /\ liveRegions' = after.liveRegions
        /\ timers' = after.timers
        /\ lastCall' = [method |-> "announceForAccessibilityWithOptions",
                        message |-> message, options |-> options,
                        outcome |-> after.outcome, logged |-> after.logged,
                        delegated |-> after.delegated]
        /\ delivered' = {}
        /\ UNCHANGED <<speech, hasDocument, dom>>
        /\ UNCHANGED <<hostVars, prefersReducedMotionMedia, listenerVars>>
        /\ UNCHANGED <<ruleVars, patchVars>>

\* the host: the oldest pending 10 ms timer fires
FireTimer ==
    /\ timers # <<>>
    /\ liveRegions' = [liveRegions EXCEPT ![Head(timers).region].text =
                                               Head(timers).message]
    /\ timers' = Tail(timers)
    /\ lastCall' = NoCall
    /\ delivered' = {}
    /\ UNCHANGED <<speech, speechLog, hasDocument, dom>>
    /\ UNCHANGED <<hostVars, prefersReducedMotionMedia, listenerVars>>
    /\ UNCHANGED <<ruleVars, patchVars>>

\* the host: global.window is deleted or restored
SetWindow(defined) ==
    /\ windowDefined # defined
    /\ windowDefined' = defined
    /\ lastCall' = NoCall
    /\ delivered' = {}
    /\ UNCHANGED <<hasMatchMedia, activeElement, media>>
    /\ UNCHANGED <<prefersReducedMotionMedia, listenerVars, announceVars>>
    /\ UNCHANGED <<ruleVars, patchVars>>

\* the host: window.matchMedia is removed or provided
SetMatchMedia(present) ==
    /\ hasMatchMedia # present
    /\ hasMatchMedia' = present
    /\ lastCall' = NoCall
    /\ delivered' = {}
    /\ UNCHANGED <<windowDefined, activeElement, media>>
    /\ UNCHANGED <<prefersReducedMotionMedia, listenerVars, announceVars>>
    /\ UNCHANGED <<ruleVars, patchVars>>

\* the host: a media feature changes, or its query starts or stops throwing.
\* The list captured at load is live: it follows the reduced-motion feature
\* and sends a change event to its listeners when its matches changes
SetMedia(q, answer) ==
    LET follows == /\ q = ReducedMotionQuery
                   /\ answer # "throws"
                   /\ prefersReducedMotionMedia # null
        changes == follows /\ prefersReducedMotionMedia.matches # (answer = "matches")
    IN  /\ media[q] # answer
        /\ media' = [media EXCEPT ![q] = answer]
        /\ prefersReducedMotionMedia' =
               IF follows
               THEN [prefersReducedMotionMedia EXCEPT !.matches = (answer = "matches")]
               ELSE prefersReducedMotionMedia
        /\ delivered' =
               IF changes
               THEN {ListenerCall(l, MediaQueryListEvent(answer = "matches")) :
                         l \in registered}
               ELSE {}
        /\ lastCall' = NoCall
        /\ UNCHANGED <<windowDefined, hasMatchMedia, activeElement>>
        /\ UNCHANGED <<listenerVars, announceVars>>
        /\ UNCHANGED <<ruleVars, patchVars>>

\* the host: focus moves, or reading document.activeElement starts to throw
SetActiveElement(a) ==
    /\ activeElement # a
    /\ activeElement' = a
    /\ lastCall' = NoCall
    /\ delivered' = {}
    /\ UNCHANGED <<windowDefined, hasMatchMedia, media>>
    /\ UNCHANGED <<prefersReducedMotionMedia, listenerVars, announceVars>>
    /\ UNCHANGED <<ruleVars, patchVars>>

\* the host: window.speechSynthesis appears, disappears or starts to throw
SetSpeech(mode) ==
    /\ speech # mode
    /\ speech' = mode
    /\ lastCall' = NoCall
    /\ delivered' = {}
    /\ UNCHANGED <<speechLog, hasDocument, dom, liveRegions, timers>>
    /\ UNCHANGED <<hostVars, prefersReducedMotionMedia, listenerVars>>
    /\ UNCHANGED <<ruleVars, patchVars>>

\* the host: window.document is removed or restored
SetDocument(present) ==
    /\ hasDocument # present
    /\ hasDocument' = present
    /\ lastCall' = NoCall
    /\ delivered' = {}
    /\ UNCHANGED <<speech, speechLog, dom, liveRegions, timers>>
    /\ UNCHANGED <<hostVars, prefersReducedMotionMedia, listenerVars>>
    /\ UNCHANGED <<ruleVars, patchVars>>

\* the host: createElement or appendChild starts or stops throwing
SetDom(mode) ==
    /\ dom # mode
    /\ dom' = mode
    /\ lastCall' = NoCall
    /\ delivered' = {}
    /\ UNCHANGED <<speech, speechLog, hasDocument, liveRegions, timers>>
    /\ UNCHANGED <<hostVars, prefersReducedMotionMedia, listenerVars>>
    /\ UNCHANGED <<ruleVars, patchVars>>

\* canUseDOM at module load
canUseDOM == windowDefined /\ hasDocument

\* the patching block runs: the last statement of the module
PatchModules ==
    LET after == RuntimePatching(modules)
    IN  /\ patching = "pending"
        /\ patching' = "done"
        /\ modules' = after.modules
        /\ lastCall' = [method |-> "runtimePatching",
                        patchedModules |-> after.patchedModules]
        /\ delivered' = {}
        /\ UNCHANGED <<hostVars, prefersReducedMotionMedia, listenerVars, announceVars>>
        /\ UNCHANGED ruleVars

\* the constants of the module after their initialisation in a host with or
\* without window and matchMedia, whose media query lists have the given
\* listener api and whose speech synthesis is in the given mode: nothing
\* focused, no media feature set, nothing registered or announced
ConstantsLoaded(window, matchMedia, api, speechMode) ==
    /\ windowDefined = window
    /\ hasMatchMedia = matchMedia
    /\ activeElement = "body"
    /\ media = [q \in MediaQueries |-> "nomatch"]
    /\ hasDocument = TRUE
    /\ dom = "ok"
    /\ speech = speechMode
    /\ prefersReducedMotionMedia =
           IF canUseDOM /\ hasMatchMedia
           THEN MediaQueryList(api, media[ReducedMotionQuery] = "matches")
           ELSE null
    /\ handlers = [k \in HandlerKeys |-> undefined]
    /\ registered = {}
    /\ nextListener = 1
    /\ addCount = [h \in Handlers |-> 0]
    /\ removeCount = [h \in Handlers |-> 0]
    /\ subscriptions = {}
    /\ delivered = {}
    /\ speechLog = <<>>
    /\ liveRegions = [id \in LiveRegionIds |-> NoRegion]
    /\ timers = <<>>
    /\ lastCall = NoCall

\* the module after load, with two modules that export a bare
\* AccessibilityInfo object
PolyfillLoadedIn(window, matchMedia, api, speechMode) ==
    /\ ConstantsLoaded(window, matchMedia, api, speechMode)
    /\ modules = RuntimePatching([n \in ModuleNames |-> Module("object", {})]).modules
    /\ patching = "done"

\* the same with working speech synthesis
PolyfillLoaded(window, matchMedia, api) ==
    PolyfillLoadedIn(window, matchMedia, api, "ok")

\* a browser at load
InitPolyfill == PolyfillLoaded(TRUE, TRUE, "modern")

(***************************************************************************)
(* Specifications                                                          *)
(***************************************************************************)
Init == InitRules /\ InitPolyfill

\* the rule engine
Next ==
    \/ \E issue \in Issues : CallGetRuleErrorInfo(issue)
    \/ \E issue \in Issues : CallGetRuleError(issue)
    \/ \E el \in Elements : RenderPressable(el)

Spec == Init /\ [][Next]_vars

\* a production build of the rule engine, beside which the polyfill runs
InitRulesBeside ==
    /\ InitRules
    /\ DEV = FALSE
    /\ probe = Issue("NO_ACCESSIBILITY_LABEL", undefined)

\* the state methods of the polyfill in a changing host
InitPolyfillSpec ==
    /\ \E window \in BOOLEAN, matchMedia \in BOOLEAN :
           PolyfillLoaded(window, matchMedia, "modern")
    /\ InitRulesBeside

NextPolyfill ==
    \/ \E method \in StateMethods : CallStateMethod(method)
    \/ \E b \in BOOLEAN : SetWindow(b)
    \/ \E b \in BOOLEAN : SetMatchMedia(b)
    \/ \E q \in MediaQueries, answer \in {"matches", "nomatch", "throws"} :
           SetMedia(q, answer)
    \/ \E a \in {"body", "other", "throws"} : SetActiveElement(a)

PolyfillSpec == InitPolyfillSpec /\ [][NextPolyfill]_vars

\* the event listeners of the polyfill, while the reduced-motion preference
\* of the user changes
InitListeners ==
    /\ \E matchMedia \in BOOLEAN, api \in ListApis :
           PolyfillLoaded(TRUE, matchMedia, api)
    /\ InitRulesBeside

NextListeners ==
    \/ \E e \in EventNames, h \in Handlers : AddEventListener(e, h)
    \/ \E e \in EventNames, h \in Handlers : RemoveEventListener(e, h)
    \/ \E sub \in subscriptions : CallRemove(sub)
    \/ \E answer \in {"matches", "nomatch"} : SetMedia(ReducedMotionQuery, answer)

ListenerSpec == InitListeners /\ [][NextListeners]_vars

\* the announcements of the polyfill in a changing host
InitAnnounce ==
    /\ PolyfillLoaded(TRUE, TRUE, "modern")
    /\ InitRulesBeside

NextAnnounce ==
    \/ \E m \in Messages : AnnounceForAccessibility(m)
    \/ FireTimer
    \/ \E b \in BOOLEAN : SetWindow(b)
    \/ \E mode \in SpeechModes : SetSpeech(mode)
    \/ \E b \in BOOLEAN : SetDocument(b)
    \/ \E mode \in DomModes : SetDom(mode)

AnnounceSpec == InitAnnounce /\ [][NextAnnounce]_vars

\* the live regions of the polyfill under both kinds of announcement, in a
\* host whose document changes and whose speech synthesis stays as it is
InitRegions ==
    /\ \E mode \in SpeechModes : PolyfillLoadedIn(TRUE, TRUE, "modern", mode)
    /\ InitRulesBeside

NextRegions ==
    \/ \E m \in Messages : AnnounceForAccessibility(m)
    \/ \E m \in Messages, options \in OptionsValues :
           AnnounceForAccessibilityWithOptions(m, options)
    \/ FireTimer
    \/ \E b \in BOOLEAN : SetWindow(b)
    \/ \E b \in BOOLEAN : SetDocument(b)
    \/ \E mode \in DomModes : SetDom(mode)

RegionSpec == InitRegions /\ [][NextRegions]_vars

\* the patching block of the module, for every pair of modules and with or
\* without window
InitPatching ==
    /\ \E window \in BOOLEAN : ConstantsLoaded(window, TRUE, "modern", "ok")
    /\ modules \in [ModuleNames -> ModuleValues]
    /\ patching = "pending"
    /\ InitRulesBeside

NextPatching == PatchModules

PatchSpec == InitPatching /\ [][NextPatching]_vars

(***************************************************************************)
(* Properties                                                              *)
(***************************************************************************)
IsCall == last.op \in {"getRuleErrorInfo", "GetRuleError"}
IssueRules(issues) == {issues[i].rule : i \in 1..Len(issues)}

\* C1: in development mode, getRuleErrorInfo on an issue whose rule is a
\* key of the catalog returns exactly {message, url, severity}: the entry's
\* severity, the documentation base followed by the entry's url, and the
\* entry's message, followed by ': ' and the reason when the issue has a
\* non-empty reason.
C1_ReportOfCatalogRule ==
    (DEV /\ last.op = "getRuleErrorInfo" /\ last.issue.rule \in DOMAIN RuleCatalog) =>
        LET entry == RuleCatalog[last.issue.rule].props
            reason == last.issue.reason
        IN  /\ last.ok
            /\ DOMAIN last.v = {"message", "url", "severity"}
            /\ last.v.severity = entry.severity
            /\ last.v.url =
                 Str("https://nearform.com/open-source/react-native-ama/" \o entry.url.v)
            /\ last.v.message =
                 (IF reason = undefined \/ reason = Str("")
                  THEN entry.message
                  ELSE Str(entry.message.v \o ": " \o reason.v))
            /\ (last.issue = Issue("MINIMUM_SIZE", Str("found 30x30")) =>
                  last.v =
                    [message |-> Str("Interactive elements must meet minimum size requirements.: found 30x30"),
                     url |-> Str("https://nearform.com/open-source/react-native-ama//guidelines/minimum-size"),
                     severity |-> Str("Serious")])

C1_Witness ==
    /\ DEV
    /\ last.op = "getRuleErrorInfo"
    /\ last.issue = Issue("MINIMUM_SIZE", Str("found 30x30"))
    /\ last.ok

\* C3 as stated: in development mode, a call of getRuleErrorInfo or
\* GetRuleError on an issue whose rule is not in the catalog fails and never
\* returns a result, and the catalog is unchanged.
C3_UnknownRuleAlwaysThrows ==
    (DEV /\ IsCall /\ last.issue.rule \notin DOMAIN RuleCatalog) =>
        /\ ~last.ok
        /\ RulesHelp = Obj(RuleCatalog)

\* C3 amended: the call fails when the rule is neither a key of the catalog
\* nor a property name inherited from Object.prototype; for an inherited
\* name the lookup finds the inherited value and the call returns a result
\* built from its absent fields; the catalog is unchanged either way.
C3_UnknownRuleThrowsUnlessInherited ==
    (DEV /\ IsCall /\ last.issue.rule \notin DOMAIN RuleCatalog) =>
        /\ RulesHelp = Obj(RuleCatalog)
        /\ (last.issue.rule \notin ObjectPrototypeKeys => ~last.ok)
        /\ (last.issue.rule \in ObjectPrototypeKeys =>
              /\ last.ok
              /\ (last.op = "getRuleErrorInfo" =>
                    /\ last.v.severity = undefined
                    /\ last.v.url =
                         Str("https://nearform.com/open-source/react-native-ama/undefined")
                    /\ last.v.message =
                         (IF last.issue.reason \in {undefined, Str("")}
                          THEN undefined
                          ELSE Str("undefined: " \o last.issue.reason.v))))

C3_Witness ==
    /\ DEV
    /\ last.op = "getRuleErrorInfo"
    /\ last.issue.rule = "UNKNOWN_RULE"
    /\ ~last.ok

\* C4: the catalog always equals its initial content, and in development
\* mode every entry has exactly the fields url, issue, severity, message,
\* expectation, with severity Serious or Critical.
C4_CatalogNeverMutated ==
    /\ RulesHelp = (IF DEV THEN Obj(RuleCatalog) ELSE null)
    /\ DEV =>
         \A k \in DOMAIN RulesHelp.props :
            /\ DOMAIN RulesHelp.props[k].props =
                 {"url", "issue", "severity", "message", "expectation"}
            /\ RulesHelp.props[k].props.severity \in {Str("Serious"), Str("Critical")}

C4_Witness ==
    /\ DEV
    /\ probeStage = "between"
    /\ probe.reason = Str("found 30x30")
    /\ probeFirst.ok
    /\ last.op = "GetRuleError"
    /\ last.ok

\* C5: getRuleErrorInfo is deterministic and stateless: a later evaluation
\* on the same issue, whatever was called in between, has the outcome of
\* the first.
C5_SameIssueSameReport ==
    (last.op = "getRuleErrorInfo" /\ last.issue = probe /\ probeStage # "none") =>
        probeFirst = [ok |-> last.ok, v |-> last.v]

C5_Witness ==
    /\ DEV
    /\ probeStage = "againBetween"
    /\ last.op = "getRuleErrorInfo"
    /\ last.issue = probe
    /\ probe.rule = "MINIMUM_SIZE"
    /\ last.ok

\* C6 as stated: a pressable element with no accessible label and no
\* accessible role yields exactly two issues, NO_ACCESSIBILITY_LABEL and
\* NO_ACCESSIBILITY_ROLE, and the report of each has severity Critical.
C6_ExactlyTwoIssues ==
    (DEV /\ last.op = "render" /\ ~last.element.hasLabel /\ ~last.element.hasRole) =>
        /\ Len(last.issues) = 2
        /\ IssueRules(last.issues) = {"NO_ACCESSIBILITY_LABEL", "NO_ACCESSIBILITY_ROLE"}
        /\ \A i \in 1..Len(last.issues) :
              /\ last.reports[i].ok
              /\ last.reports[i].v.severity = Str("Critical")

\* C6: a pressable element with no accessible label and no accessible role
\* yields NO_ACCESSIBILITY_LABEL and NO_ACCESSIBILITY_ROLE once each, and the
\* report of each has severity Critical; these are its only issues exactly
\* when its width and height meet the minimum, and an undersized one yields
\* MINIMUM_SIZE as a third issue.
C6_MissingLabelAndRole ==
    (DEV /\ last.op = "render" /\ ~last.element.hasLabel /\ ~last.element.hasRole) =>
        LET others == SelectSeq(last.issues, LAMBDA i : i.rule # "MINIMUM_SIZE")
            meets == last.element.width >= MINIMUM_TOUCHABLE_SIZE
                         /\ last.element.height >= MINIMUM_TOUCHABLE_SIZE
        IN  /\ Len(others) = 2
            /\ IssueRules(others) = {"NO_ACCESSIBILITY_LABEL", "NO_ACCESSIBILITY_ROLE"}
            /\ Len(last.issues) = (IF meets THEN 2 ELSE 3)
            /\ \A i \in 1..Len(last.issues) :
                  last.issues[i].rule \in
                      {"NO_ACCESSIBILITY_LABEL", "NO_ACCESSIBILITY_ROLE"} =>
                    /\ last.reports[i].ok
                    /\ last.reports[i].v.severity = Str("Critical")

C6_Witness ==
    /\ DEV
    /\ last.op = "render"
    /\ last.element = [hasLabel |-> FALSE, hasRole |-> FALSE, width |-> 44, height |-> 44]
    /\ Len(last.issues) = 2
    /\ Len(last.reports) = 2
    /\ \A i \in 1..2 : last.reports[i].v.severity = Str("Critical")

\* C7: a pressable element sized 30x30 yields MINIMUM_SIZE, reported as
\* Serious; one sized 44x44 yields no MINIMUM_SIZE issue; in general the
\* issue is raised exactly when the width or the height is below 44.
C7_MinimumSize ==
    (DEV /\ last.op = "render") =>
        LET w == last.element.width
            h == last.element.height
            sized == {i \in 1..Len(last.issues) : last.issues[i].rule = "MINIMUM_SIZE"}
        IN  /\ (w = 30 /\ h = 30 => Cardinality(sized) = 1)
            /\ (w = 44 /\ h = 44 => sized = {})
            /\ (sized # {} <=> (w < 44 \/ h < 44))
            /\ \A i \in sized :
                  /\ last.reports[i].ok
                  /\ last.reports[i].v.severity = Str("Serious")

C7_Witness ==
    /\ DEV
    /\ last.op = "render"
    /\ last.element.width = 30
    /\ last.element.height = 30
    /\ \E i \in 1..Len(last.issues) :
          /\ last.issues[i].rule = "MINIMUM_SIZE"
          /\ last.reports[i].v.severity = Str("Serious")

\* C8: when __DEV__ is false, RULES_HELP, SEVERITIES, getRuleErrorInfo and
\* GetRuleError are all null, and no call or render pass produces a report.
C8_ProductionHasNoRuleData ==
    ~DEV =>
        /\ RulesHelp = null
        /\ Severities = null
        /\ exported.getRuleErrorInfo = null
        /\ exported.GetRuleError = null
        /\ (IsCall => ~last.ok)
        /\ (last.op = "render" => last.issues = <<>> /\ last.reports = <<>>)

C8_Witness ==
    /\ ~DEV
    /\ last.op = "getRuleErrorInfo"
    /\ last.issue.rule = "MINIMUM_SIZE"
    /\ ~last.ok

PolyfilledStateMethods ==
    {"isReduceTransparencyEnabled", "isBoldTextEnabled", "isGrayscaleEnabled",
     "isInvertColorsEnabled", "isReduceMotionAndAnimationsEnabled",
     "isDarkerSystemColorsEnabled", "isOnOffSwitchLabelsEnabled",
     "isClosedCaptionEnabled", "isMonoAudioEnabled", "isShakeToUndoEnabled",
     "isAssistiveTouchRunning", "isSwitchControlRunning", "isVoiceOverRunning",
     "isTalkBackRunning", "isAccessibilityServiceEnabled"}

\* C9: each of the 15 polyfilled state methods resolves to false, in every
\* state of the host and after any sequence of other calls.
C9_PolyfilledMethodsResolveFalse ==
    /\ PolyfilledStateMethods \subseteq StateMethods
    /\ lastCall.method \in PolyfilledStateMethods =>
         /\ lastCall.outcome.status = "resolved"
         /\ lastCall.outcome.value = Bool(FALSE)

C9_Witness ==
    /\ lastCall.method = "isReduceMotionAndAnimationsEnabled"
    /\ windowDefined
    /\ hasMatchMedia
    /\ media[ReducedMotionQuery] = "matches"
    /\ activeElement = "other"
    /\ lastCall.outcome.value = Bool(FALSE)

\* C10: when window and window.matchMedia exist and nothing throws during
\* the call, isScreenReaderEnabled resolves true exactly when an indicator
\* holds: the active element is not the body, the reduced-motion query
\* matches, or the forced-colors query matches; otherwise it resolves false.
C10_ScreenReaderIndicators ==
    (/\ lastCall.method = "isScreenReaderEnabled"
     /\ windowDefined
     /\ hasMatchMedia
     /\ ~lastCall.outcome.caught) =>
        /\ lastCall.outcome.status = "resolved"
        /\ lastCall.outcome.value =
             Bool(\/ activeElement = "other"
                  \/ media["(prefers-reduced-motion: reduce)"] = "matches"
                  \/ media["(forced-colors: active)"] = "matches")

C10_Witness ==
    /\ lastCall.method = "isScreenReaderEnabled"
    /\ windowDefined
    /\ hasMatchMedia
    /\ activeElement = "body"
    /\ media[ReducedMotionQuery] = "nomatch"
    /\ media[ForcedColorsQuery] = "matches"
    /\ ~lastCall.outcome.caught
    /\ lastCall.outcome.value = Bool(TRUE)


\* the detection of isScreenReaderEnabled reads document.activeElement or
\* calls window.matchMedia, and that read or call throws
DetectionThrows ==
    /\ windowDefined
    /\ \/ activeElement = "throws"
       \/ /\ activeElement = "body"
          /\ hasMatchMedia
          /\ \/ media[ReducedMotionQuery] = "throws"
             \/ /\ media[ReducedMotionQuery] = "nomatch"
                /\ media[ForcedColorsQuery] = "throws"

\* C11: isScreenReaderEnabled never rejects: it resolves false when window
\* is undefined, and it resolves false when reading document.activeElement or
\* calling window.matchMedia throws during detection.
C11_ScreenReaderNeverRejects ==
    lastCall.method = "isScreenReaderEnabled" =>
        /\ lastCall.outcome.status = "resolved"
        /\ ~windowDefined => lastCall.outcome.value = Bool(FALSE)
        /\ DetectionThrows => lastCall.outcome.value = Bool(FALSE)

C11_Witness ==
    /\ lastCall.method = "isScreenReaderEnabled"
    /\ DetectionThrows
    /\ media[ReducedMotionQuery] = "throws"
    /\ lastCall.outcome.status = "resolved"
    /\ lastCall.outcome.value = Bool(FALSE)

\* C12: isScreenReaderEnabled, and its alias fetch, always resolve to a
\* boolean, in every environment: window present or absent, matchMedia
\* present or absent, any focus state.
C12_ScreenReaderResolvesBoolean ==
    lastCall.method \in {"isScreenReaderEnabled", "fetch"} =>
        /\ lastCall.outcome.status = "resolved"
        /\ lastCall.outcome.value \in {Bool(TRUE), Bool(FALSE)}

\* C13: isScreenReaderEnabled() always returns true.
C13_ScreenReaderAlwaysTrue ==
    lastCall.method = "isScreenReaderEnabled" =>
        lastCall.outcome.value = Bool(TRUE)

\* C14: isReduceMotionEnabled resolves the current matches value of the
\* '(prefers-reduced-motion: reduce)' media query: true when the user prefers
\* reduced motion, false otherwise. The value is that of the list captured
\* at load when there is one, and that of a fresh query otherwise.
C14_ReduceMotionResolvesCurrentMatches ==
    lastCall.method = "isReduceMotionEnabled" =>
        /\ prefersReducedMotionMedia # null =>
               lastCall.outcome.value = Bool(prefersReducedMotionMedia.matches)
        /\ ( /\ media[ReducedMotionQuery] # "throws"
             /\ prefersReducedMotionMedia # null \/ (windowDefined /\ hasMatchMedia) ) =>
               lastCall.outcome.value = Bool(media[ReducedMotionQuery] = "matches")

C14_Witness ==
    /\ lastCall.method = "isReduceMotionEnabled"
    /\ prefersReducedMotionMedia = null
    /\ media[ReducedMotionQuery] = "matches"
    /\ lastCall.outcome.value = Bool(TRUE)

MatchMediaUnavailableOrThrows ==
    ~windowDefined \/ ~hasMatchMedia \/ media[ReducedMotionQuery] = "throws"

\* C15 as stated: isReduceMotionEnabled never rejects and resolves false
\* whenever window.matchMedia is unavailable at call time or throws when
\* called.
C15_ReduceMotionFalseWithoutMatchMedia ==
    lastCall.method = "isReduceMotionEnabled" =>
        /\ lastCall.outcome.status = "resolved"
        /\ MatchMediaUnavailableOrThrows => lastCall.outcome.value = Bool(FALSE)

\* C15: isReduceMotionEnabled never rejects; when no media query list was
\* captured at module load it resolves false whenever window.matchMedia is
\* unavailable at call time or throws when called; when a list was captured
\* it resolves the matches of that list, also in those cases.
C15_ReduceMotionFalseWithoutMatchMediaAndList ==
    lastCall.method = "isReduceMotionEnabled" =>
        /\ lastCall.outcome.status = "resolved"
        /\ (prefersReducedMotionMedia = null /\ MatchMediaUnavailableOrThrows) =>
               lastCall.outcome.value = Bool(FALSE)
        /\ (prefersReducedMotionMedia # null /\ MatchMediaUnavailableOrThrows) =>
               lastCall.outcome.value = Bool(prefersReducedMotionMedia.matches)

C15_Witness ==
    /\ lastCall.method = "isReduceMotionEnabled"
    /\ prefersReducedMotionMedia = null
    /\ windowDefined /\ hasMatchMedia
    /\ media[ReducedMotionQuery] = "throws"
    /\ lastCall.outcome.status = "resolved"
    /\ lastCall.outcome.value = Bool(FALSE)

\* C16: isHighContrastEnabled resolves the matches of
\* '(prefers-contrast: high)' when that query does not throw; when it throws,
\* the matches of '(forced-colors: active)'; and false when both throw or
\* when window or window.matchMedia is missing. The forced-colors query is
\* consulted only after the first query threw.
C16_HighContrastFallsBackToForcedColors ==
    lastCall.method = "isHighContrastEnabled" =>
        LET outcome == lastCall.outcome
            first == media[HighContrastQuery]
            second == media[ForcedColorsQuery]
        IN  /\ outcome.status = "resolved"
            /\ (windowDefined /\ hasMatchMedia /\ first # "throws") =>
                   /\ outcome.value = Bool(first = "matches")
                   /\ outcome.consulted = <<HighContrastQuery>>
            /\ (windowDefined /\ hasMatchMedia /\ first = "throws") =>
                   /\ outcome.consulted = <<HighContrastQuery, ForcedColorsQuery>>
                   /\ outcome.value = Bool(second = "matches")
            /\ (~windowDefined \/ ~hasMatchMedia) =>
                   /\ outcome.value = Bool(FALSE)
                   /\ outcome.consulted = <<>>

C16_Witness ==
    /\ lastCall.method = "isHighContrastEnabled"
    /\ windowDefined /\ hasMatchMedia
    /\ media[HighContrastQuery] = "throws"
    /\ media[ForcedColorsQuery] = "matches"
    /\ lastCall.outcome.value = Bool(TRUE)
    /\ lastCall.outcome.consulted = <<HighContrastQuery, ForcedColorsQuery>>


\* the call removes a reduceMotionChanged handler, directly or through the
\* remove of a subscription
IsReduceMotionRemoval(call) ==
    \/ call.method = "removeEventListener" /\ call.eventName = ReduceMotionChanged
    \/ call.method = "remove" /\ call.subscription.remove.body[1] = "removeEventListener"
RemovalHandler(call) ==
    IF call.method = "remove" THEN call.subscription.remove.body[3] ELSE call.handler

\* the list takes listeners: it has addEventListener or addListener, and the
\* registration does not throw
ListTakesListeners ==
    /\ prefersReducedMotionMedia # null
    /\ prefersReducedMotionMedia.api \in {"modern", "legacy"}

\* every change event calls the handler of each registered listener with the
\* event's matches value (a boolean), not with the event object
ChangeEventsDeliverMatches ==
    ( /\ prefersReducedMotionMedia # null
      /\ prefersReducedMotionMedia' # prefersReducedMotionMedia ) =>
         delivered' = {[listener |-> l.id, handler |-> l.handler,
                        arg |-> Bool(prefersReducedMotionMedia'.matches)] :
                           l \in registered}

\* C17 as stated: when the reduced-motion media query was available at module
\* load, addEventListener('reduceMotionChanged', handler) registers one
\* 'change' listener on that media query, and every later change event calls
\* handler with the event's matches value (not the event object).
C17_AlwaysRegisters ==
    [][ /\ ( /\ lastCall'.method = "addEventListener"
             /\ lastCall'.eventName = ReduceMotionChanged
             /\ prefersReducedMotionMedia # null ) =>
                \E l \in registered' \ registered :
                    /\ l.handler = lastCall'.handler
                    /\ registered' = registered \cup {l}
        /\ ChangeEventsDeliverMatches
      ]_vars

\* C17: when the reduced-motion media query was available at module load and
\* the list has addEventListener or addListener and takes the listener
\* without throwing, addEventListener('reduceMotionChanged', handler)
\* registers one 'change' listener on that media query; when the list has
\* neither method or the registration throws, no listener is registered (a
\* throw is caught and logged), and the call still stores the listener in
\* the handlers map and returns a removing subscription. Every change event
\* calls the handler of each registered listener with the event's matches
\* value (a boolean), not with the event object.
C17_ReduceMotionListener ==
    [][ /\ ( /\ lastCall'.method = "addEventListener"
             /\ lastCall'.eventName = ReduceMotionChanged
             /\ prefersReducedMotionMedia # null ) =>
                /\ ListTakesListeners =>
                       \E l \in registered' \ registered :
                           /\ l.handler = lastCall'.handler
                           /\ registered' = registered \cup {l}
                           /\ ~lastCall'.warned
                /\ ~ListTakesListeners =>
                       /\ registered' = registered
                       /\ lastCall'.warned <=> prefersReducedMotionMedia.api = "throws"
                /\ handlers'[HandlerKey(lastCall'.handler)] \notin registered
                /\ handlers'[HandlerKey(lastCall'.handler)].handler = lastCall'.handler
                /\ lastCall'.outcome =
                       Ok(RemovingSubscription(ReduceMotionChanged, lastCall'.handler))
        /\ ChangeEventsDeliverMatches
      ]_vars

C17_Witness ==
    /\ prefersReducedMotionMedia # null
    /\ prefersReducedMotionMedia.api = "legacy"
    /\ prefersReducedMotionMedia.matches
    /\ \E l \in registered :
           [listener |-> l.id, handler |-> l.handler, arg |-> Bool(TRUE)] \in delivered

\* C18: removeEventListener('reduceMotionChanged', handler), called directly
\* or through the subscription's remove(), unregisters the listener stored
\* for handler and deletes its mapping; calling it a second time, or for a
\* handler that was never added, changes no state and does not throw.
C18_RemovalIdempotent ==
    [][ IsReduceMotionRemoval(lastCall') =>
            LET handler == RemovalHandler(lastCall')
                key == HandlerKey(handler)
            IN  /\ lastCall'.outcome.ok
                /\ handlers'[key] = undefined
                /\ handlers[key] # undefined => handlers[key] \notin registered'
                /\ addCount[handler] = 0 => UNCHANGED <<handlers, registered>>
                /\ ( /\ IsReduceMotionRemoval(lastCall)
                     /\ RemovalHandler(lastCall) = handler ) =>
                        UNCHANGED <<handlers, registered>>
      ]_vars

\* C19: for every event name (reduceMotionChanged, the five mock events, any
\* unknown name) addEventListener returns a subscription whose remove is a
\* function, and neither addEventListener nor remove() throws; for mock and
\* unknown events nothing is registered and the handler is never invoked:
\* handlers are invoked only by listeners registered for reduceMotionChanged.
C19_SubscriptionForEveryEvent ==
    [][ /\ lastCall'.method = "addEventListener" =>
            /\ lastCall'.outcome.ok
            /\ lastCall'.outcome.v.remove.t = "function"
            /\ lastCall'.outcome.v \in subscriptions'
            /\ lastCall'.eventName # ReduceMotionChanged =>
                   /\ UNCHANGED <<handlers, registered>>
                   /\ delivered' = {}
        /\ lastCall'.method = "remove" =>
            /\ lastCall'.outcome.ok
            /\ lastCall'.subscription = NoopSubscription =>
                   UNCHANGED <<handlers, registered>>
        /\ \A c \in delivered' :
               \E l \in registered : l.id = c.listener /\ l.handler = c.handler
      ]_vars

\* remove() of a reduceMotionChanged subscription on a list whose
\* removeEventListener throws returned after a warning, and a mock or unknown
\* event was subscribed to before
C19_Witness ==
    /\ lastCall.method = "remove"
    /\ lastCall.subscription # NoopSubscription
    /\ lastCall.outcome.ok
    /\ lastCall.warned
    /\ prefersReducedMotionMedia # null
    /\ prefersReducedMotionMedia.api = "throws"
    /\ NoopSubscription \in subscriptions
    /\ registered = {}

\* C20 as stated: each announceForAccessibility call, when
\* window.speechSynthesis exists, calls cancel() and then speak() exactly
\* once each, cancel before speak; after n calls there have been n cancels
\* and n speaks.
C20_CancelThenSpeakOnceEach ==
    \A i \in 1..Len(speechLog) : speechLog[i].calls = <<"cancel", "speak">>

\* C20: each announceForAccessibility call, when window.speechSynthesis
\* exists, calls cancel() first and exactly once; it then calls speak()
\* exactly once unless cancel() or the SpeechSynthesisUtterance constructor
\* threw, in which case it does not call speak(). After n calls in which
\* neither threw there have been n cancels and n speaks.
C20_CancelThenSpeakUnlessThrown ==
    /\ \A i \in 1..Len(speechLog) :
           /\ speechLog[i].mode \in {"ok", "speakThrows"} =>
                  speechLog[i].calls = <<"cancel", "speak">>
           /\ speechLog[i].mode \in {"cancelThrows", "utteranceThrows"} =>
                  speechLog[i].calls = <<"cancel">>
    /\ ( /\ lastCall.method = "announceForAccessibility"
         /\ windowDefined /\ speech # "absent" ) =>
            /\ speechLog # <<>>
            /\ speechLog[Len(speechLog)].mode = speech

C20_Witness ==
    /\ lastCall.method = "announceForAccessibility"
    /\ Len(speechLog) = MaxAnnouncements
    /\ \A i \in 1..Len(speechLog) :
           speechLog[i] = [mode |-> "ok", calls |-> <<"cancel", "speak">>]

AnnouncementMethods == {"announceForAccessibility", "announceForAccessibilityWithOptions"}

\* the live region an announcement call works on
TargetRegion(call) ==
    IF call.method = "announceForAccessibilityWithOptions"
           /\ call.options = Queue(FALSE)
    THEN AssertiveRegion
    ELSE PoliteRegion

\* in the current host an announcement obtains the region with the given id:
\* the document exists, and the element exists or can be created and appended
Obtains(id) ==
    windowDefined /\ hasDocument /\ (liveRegions[id].count > 0 \/ dom = "ok")

\* C21: at most one polite and at most one assertive live region ever exist
\* in the document: an announcement creates and appends the element only
\* when no element with that id exists, and otherwise reuses the existing one
\* without creating or appending anything.
C21_AtMostOneRegionEach ==
    [][ \A id \in LiveRegionIds :
            /\ liveRegions'[id].count <= 1
            /\ liveRegions'[id].count # liveRegions[id].count =>
                   liveRegions[id].count = 0 /\ liveRegions'[id].count = 1
            /\ liveRegions[id].count > 0 =>
                   /\ liveRegions'[id].ariaLive = liveRegions[id].ariaLive
                   /\ liveRegions'[id].ariaAtomic = liveRegions[id].ariaAtomic
      ]_vars

C21_Witness ==
    /\ \A id \in LiveRegionIds : liveRegions[id].count = 1
    /\ Len(timers) = 2
    /\ timers[1].region = timers[2].region
    /\ lastCall.method \in AnnouncementMethods

\* C22: an announcement that obtains its live region sets the region's text
\* to empty before the call returns and sets it to the announced message
\* when the call's own 10 ms timer fires: the text is empty immediately
\* after the call and equals that call's message immediately after that
\* timer fires.
C22_ClearedThenSetByTimer ==
    [][ /\ (lastCall'.method \in AnnouncementMethods /\ Obtains(TargetRegion(lastCall'))) =>
               /\ liveRegions'[TargetRegion(lastCall')].text = ""
               /\ timers' = Append(timers, [region |-> TargetRegion(lastCall'),
                                            message |-> lastCall'.message])
        /\ (timers # <<>> /\ timers' = Tail(timers)) =>
               liveRegions'[Head(timers).region].text = Head(timers).message
      ]_vars

C22_Witness ==
    /\ lastCall = NoCall
    /\ timers = <<>>
    /\ liveRegions[AssertiveRegion].text = "m1"
    /\ liveRegions[PoliteRegion].text = "m2"

\* C23: announceForAccessibilityWithOptions(message, options) uses the
\* assertive live region (aria-live 'assertive', aria-atomic 'true') exactly
\* when options.queue === false; for every other options value (undefined,
\* null, {}, queue true) it calls announceForAccessibility(message) exactly
\* once with the same message, so it has the effect of that call and leaves
\* the assertive region alone.
C23_AssertiveExactlyWhenNotQueued ==
    [][ lastCall'.method = "announceForAccessibilityWithOptions" =>
            IF lastCall'.options = Queue(FALSE)
            THEN /\ lastCall'.delegated = <<>>
                 /\ Obtains(AssertiveRegion) =>
                        /\ liveRegions'[AssertiveRegion].count = 1
                        /\ liveRegions'[AssertiveRegion].ariaLive = "assertive"
                        /\ liveRegions'[AssertiveRegion].ariaAtomic = "true"
                        /\ liveRegions'[AssertiveRegion].latest = lastCall'.message
            ELSE /\ lastCall'.delegated = <<lastCall'.message>>
                 /\ liveRegions'[AssertiveRegion] = liveRegions[AssertiveRegion]
                 /\ speechLog' = announceForAccessibility(lastCall'.message).speechLog
                 /\ liveRegions' = announceForAccessibility(lastCall'.message).liveRegions
                 /\ timers' = announceForAccessibility(lastCall'.message).timers
      ]_vars

C23_Witness ==
    /\ lastCall.method = "announceForAccessibilityWithOptions"
    /\ lastCall.options = Queue(FALSE)
    /\ liveRegions[AssertiveRegion].count = 1
    /\ liveRegions[AssertiveRegion].ariaLive = "assertive"
    /\ liveRegions[PoliteRegion].count = 0
    /\ speechLog = <<>>

\* the call of the last step ran its speech step and that step threw
SpeechFailed ==
    /\ TargetRegion(lastCall) = PoliteRegion
    /\ SpeechStepThrows

\* the call of the last step ran its live-region step and that step threw:
\* the element was missing and could not be created and appended
RegionFailed ==
    /\ windowDefined /\ hasDocument
    /\ liveRegions[TargetRegion(lastCall)].count = 0
    /\ dom # "ok"

\* C24: announceForAccessibility and announceForAccessibilityWithOptions
\* never throw: when window, window.document or window.speechSynthesis is
\* missing, or when SpeechSynthesisUtterance, speak, createElement or
\* appendChild throws, the call returns normally and the error is only
\* logged.
C24_AnnouncementsNeverThrow ==
    lastCall.method \in AnnouncementMethods =>
        /\ lastCall.outcome.ok
        /\ (SpeechFailed \/ RegionFailed) <=> lastCall.logged # <<>>
        /\ (SpeechFailed /\ RegionFailed) <=> Len(lastCall.logged) = 2

C24_Witness ==
    /\ lastCall.method = "announceForAccessibilityWithOptions"
    /\ lastCall.options = NoOptions
    /\ speech = "utteranceThrows"
    /\ dom = "appendThrows"
    /\ lastCall.outcome.ok
    /\ Len(lastCall.logged) = 2


\* a timer is pending for the region with the given id
Pending(id) == \E i \in 1..Len(timers) : timers[i].region = id

\* C28: after any sequence of announcements to the same live region, once
\* all pending 10 ms timers have fired in the order they were scheduled, the
\* region's text is the message of the last announcement; and after a later
\* announcement has cleared the region, the region never again shows the
\* message of an earlier announcement.
C28_LastAnnouncementWins ==
    \A id \in LiveRegionIds :
        /\ (liveRegions[id].latest # "none" /\ ~Pending(id)) =>
               liveRegions[id].text = liveRegions[id].latest
        /\ liveRegions[id].text # "" =>
               liveRegions[id].text = liveRegions[id].latest

\* C29: in announceForAccessibility the speech step and the live-region step
\* are independent: when speech synthesis is unavailable or throws, the
\* polite live region is still obtained, cleared and later set to the
\* message; when the live-region step fails, cancel and speak were still
\* attempted.
C29_SpeechAndRegionIndependent ==
    [][ lastCall'.method = "announceForAccessibility" =>
            /\ ((speech = "absent" \/ SpeechStepThrows) /\ Obtains(PoliteRegion)) =>
                   /\ liveRegions'[PoliteRegion].count = 1
                   /\ liveRegions'[PoliteRegion].text = ""
                   /\ timers' = Append(timers, [region |-> PoliteRegion,
                                                message |-> lastCall'.message])
            /\ (windowDefined /\ speech # "absent" /\ ~Obtains(PoliteRegion)) =>
                   /\ Len(speechLog') = Len(speechLog) + 1
                   /\ speechLog'[Len(speechLog')].calls[1] = "cancel"
                   /\ speech = "ok" =>
                          speechLog'[Len(speechLog')].calls = <<"cancel", "speak">>
      ]_vars

C29_Witness ==
    /\ lastCall.method = "announceForAccessibility"
    /\ speech = "speakThrows"
    /\ lastCall.logged = <<"Speech synthesis failed">>
    /\ liveRegions[PoliteRegion].count = 1
    /\ liveRegions[PoliteRegion].text = ""
    /\ timers = <<[region |-> PoliteRegion, message |-> lastCall.message]>>

\* C30: announceForAccessibilityWithOptions with options.queue === false
\* touches only the assertive live region: it never calls
\* speechSynthesis.cancel or speak, and it leaves the polite live region's
\* existence and text unchanged; symmetrically, announceForAccessibility
\* leaves the assertive live region unchanged.
C30_EachAnnouncementItsOwnRegion ==
    [][ /\ ( /\ lastCall'.method = "announceForAccessibilityWithOptions"
             /\ lastCall'.options = Queue(FALSE) ) =>
                /\ speechLog' = speechLog
                /\ liveRegions'[PoliteRegion] = liveRegions[PoliteRegion]
                /\ \A i \in 1..Len(timers') :
                       timers'[i].region = PoliteRegion =>
                           i <= Len(timers) /\ timers[i] = timers'[i]
        /\ lastCall'.method = "announceForAccessibility" =>
                /\ liveRegions'[AssertiveRegion] = liveRegions[AssertiveRegion]
                /\ \A i \in 1..Len(timers') :
                       timers'[i].region = AssertiveRegion =>
                           i <= Len(timers) /\ timers[i] = timers'[i]
      ]_vars

C30_Witness ==
    /\ lastCall.method = "announceForAccessibilityWithOptions"
    /\ lastCall.options = Queue(FALSE)
    /\ speech = "ok"
    /\ Len(speechLog) = 1
    /\ liveRegions[PoliteRegion].text = "m1"
    /\ liveRegions[AssertiveRegion].count = 1
    /\ liveRegions[AssertiveRegion].text = ""


\* C26: for reduceMotionChanged and any sequence of addEventListener and
\* remove calls: once a handler has been removed as many times as it was
\* added, no listener that calls that handler remains registered on the
\* media query, so later change events never invoke it; also when the same
\* handler is added twice and when two distinct handlers have the same
\* source text.
C26_RemovedHandlerNeverInvoked ==
    \A h \in Handlers :
        (addCount[h] > 0 /\ removeCount[h] = addCount[h]) =>
            /\ \A l \in registered : l.handler # h
            /\ \A c \in delivered : c.handler # h

\* C27: in every reachable state the handlers map has an entry under a
\* handler's key exactly when a change listener wrapping that handler is
\* registered on the media query, and every listener registered on the media
\* query is the one stored in the map.
C27_RegistryInvariant ==
    /\ \A h \in Handlers :
           handlers[HandlerKey(h)] # undefined <=>
               \E l \in registered : l.handler = h
    /\ \A l \in registered : handlers[HandlerKey(l.handler)] = l


\* C25: runtime patching at module load: when window is defined, each of the
\* react-native and react-native-web AccessibilityInfo objects that exists
\* and is an object ends up with every ExtendedAccessibilityInfo method
\* (same-named originals are overridden, other originals are kept), and the
\* absence or failure of one module does not stop the other from being
\* patched; when window is undefined neither module is touched.
C25_RuntimePatching ==
    [][ (patching = "pending" /\ patching' = "done") =>
            IF windowDefined
            THEN \A n \in ModuleNames :
                     IF modules[n].kind = "object"
                     THEN /\ modules'[n].kind = "object"
                          /\ PolyfillMethods \subseteq DOMAIN modules'[n].methods
                          /\ \A m \in PolyfillMethods :
                                 modules'[n].methods[m] = "polyfill"
                          /\ \A m \in DOMAIN modules[n].methods \ PolyfillMethods :
                                 modules'[n].methods[m] = "original"
                     ELSE modules'[n] = modules[n]
            ELSE modules' = modules
      ]_vars

C25_Witness ==
    /\ patching = "done"
    /\ lastCall.method = "runtimePatching"
    /\ lastCall.patchedModules = 1
    /\ windowDefined
    /\ modules["react-native"].kind = "unavailable"
    /\ modules["react-native-web"].kind = "object"
    /\ "openSettings" \in DOMAIN modules["react-native-web"].methods
    /\ modules["react-native-web"].methods["openSettings"] = "original"
    /\ modules["react-native-web"].methods["isScreenReaderEnabled"] = "polyfill"
    /\ modules["react-native-web"].methods["setAccessibilityFocus"] = "polyfill"


====
